---------------------------- MODULE Spec2Model ----------------------------
(***************************************************************************)
(* Model of the bbc_simple core node (bbc_simple/core/bbc_core.py): the    *)
(* transaction admission path, the search functions, the bounded graph     *)
(* traversal, the signature-gathering fan-out and the registration         *)
(* commands of the dispatcher.                                             *)
(*                                                                         *)
(* Python values are encoded as follows.  A dict is a function whose       *)
(* DOMAIN is the set of keys it holds (key "k" in dat  <=>  "k" \in DOMAIN *)
(* dat).  None is the string "None" where the other values are strings,    *)
(* and NoneId (0) where they are transaction ids.  A return value of       *)
(* varying Python type is a record tagged by kind: "None", "str", "dict",  *)
(* "tuple", or "raise" for an exception that leaves the function.          *)
(***************************************************************************)
EXTENDS Integers, Sequences, FiniteSets, TLC

\* ------------------------------------------------------------------ bounds
\* number of distinct transaction contents submitted to the ledger
NumTx == 2
\* number of nodes of the exhaustively enumerated traversal graphs
NumNodes == 3
\* largest number of topology edges of those graphs
MaxEdges == 3
\* longest destination_user_ids list of a GATHER_SIGNATURE request
MaxDest == 3

\* ------------------------------------------------------- program constants
TX_TRAVERSAL_MAX == 30
ESUCCESS == 0
EINVALID_COMMAND == 0 - 1
ENOTRANSACTION == 0 - 2
EBADTRANSACTION == 0 - 3
EOTHER == 0 - 4
DEFAULT_ANYCAST_TTL == 5

\* ------------------------------------------------------------------- sets
None == "None"
NoneId == 0
\* None where a (domain_id, user_id) tuple is expected
NoneInfo == << >>
Cores == {"c1", "c2"}
DomainIds == {"d1"}
Users == {"u1", "u2"}
Sockets == {"s1", "s2"}
AssetGroups == {"g1", "g2"}

\* ---------------------------------------------------------------- helpers
RECURSIVE SetToSeq(_)
SetToSeq(S) ==
    IF S = {} THEN << >>
    ELSE LET x == CHOOSE y \in S : \A z \in S : y <= z
         IN  <<x>> \o SetToSeq(S \ {x})

Range(s) == {s[i] : i \in 1..Len(s)}

\* dict.update / item assignment: the right operand wins
Update(d, e) == e @@ d

\* ----------------------------------------------------------------- bbclib
\* Serialized transaction data.  fmt: the bytes parse; n: the content the
\* digest is taken over; ptrs: the transaction ids the content points to;
\* assets: the list of its (asset_group_id, asset_id, user_id) records; sig: the
\* signatures verify.
TxData(f, n, ptrs, assets, s) ==
    [fmt |-> f, n |-> n, ptrs |-> ptrs, assets |-> assets, sig |-> s]

\* the content-derived digest
TxIdOf(n) == 100 + n

\* BBcTransaction.deserialize: the parsed object keeps the bytes it came from
deserialize(txdata) ==
    [ok |-> txdata.fmt,
     txobj |-> [transaction_id |-> NoneId, transaction_data |-> txdata,
                n |-> txdata.n, ptrs |-> txdata.ptrs,
                assets |-> txdata.assets, sig |-> txdata.sig]]

\* BBcTransaction.digest: recompute the id from the content and attach it
digest(txobj) == [txobj EXCEPT !.transaction_id = TxIdOf(txobj.n)]

\* bbclib.validate_transaction_object -> (flag, valid_asset, invalid_asset)
validate_transaction_object(txobj) == <<txobj.sig, {}, {}>>

\* Python truth value of a tuple: true unless it is empty
TupleTruth(t) == Len(t) > 0

\* ----------------------------------------------------- storage (data handler)
\* A domain's storage: the transaction table (transaction id -> serialized
\* data) and the topology table (rows <<base, point_to>>).  Rows are read in
\* the order of their ids, which stands for the order of insertion.
EmptyStorage == [transaction_table |-> << >>, topology_table |-> {}]

StoredIds(dh) == DOMAIN dh.transaction_table

\* DataHandler.insert_transaction(txdata, txobj): the asset group ids touched,
\* or None on failure (dbok = FALSE) with the tables unchanged
dh_insert_transaction(dh, txdata, txobj, dbok) ==
    IF ~dbok THEN [ret |-> [kind |-> "None"], dh |-> dh]
    ELSE [ret |-> [kind |-> "set", val |-> {a[1] : a \in Range(txobj.assets)}],
          dh  |-> [transaction_table |->
                       (txobj.transaction_id :> txdata) @@ dh.transaction_table,
                   topology_table |-> dh.topology_table \cup
                       {<<txobj.transaction_id, p>> : p \in txobj.ptrs}]]

\* the item (txid, parsed object) of a row: the object is parsed from the
\* stored bytes and carries the id recomputed from them
RowItem(dh, txid) ==
    <<txid, digest(deserialize(dh.transaction_table[txid]).txobj)>>

\* DataHandler.search_transaction(transaction_id=...): the dict
\* {txid: parsed object}, as the sequence of its items; empty when absent
dh_search_transaction(dh, transaction_id) ==
    IF transaction_id \in StoredIds(dh) THEN <<RowItem(dh, transaction_id)>>
    ELSE << >>

\* a row matches when one asset record of it agrees with every condition given
RowMatches(txdata, asset_group_id, asset_id, user_id) ==
    \/ asset_group_id = None /\ asset_id = NoneId /\ user_id = None
    \/ \E a \in Range(txdata.assets) :
          /\ asset_group_id # None => a[1] = asset_group_id
          /\ asset_id # NoneId => a[2] = asset_id
          /\ user_id # None => a[3] = user_id

RECURSIVE Reverse(_)
Reverse(s) == IF s = << >> THEN << >> ELSE Append(Reverse(Tail(s)), Head(s))

\* DataHandler.search_transaction(asset_group_id=..., asset_id=..., user_id=...,
\* direction=..., count=...): the matching rows, newest first when direction
\* is 0 and oldest first otherwise, at most count of them
dh_search_transaction_cond(dh, asset_group_id, asset_id, user_id, direction, count) ==
    LET hits  == {k \in StoredIds(dh) :
                     RowMatches(dh.transaction_table[k], asset_group_id, asset_id, user_id)}
        rows  == SetToSeq(hits)
        order == IF direction = 0 THEN Reverse(rows) ELSE rows
        n     == IF Len(order) < count THEN Len(order) ELSE count
    IN  [i \in 1..n |-> RowItem(dh, order[i])]

\* DataHandler.count_transactions(asset_group_id=..., asset_id=..., user_id=...)
dh_count_transactions(dh, asset_group_id, asset_id, user_id) ==
    Cardinality({k \in StoredIds(dh) :
        RowMatches(dh.transaction_table[k], asset_group_id, asset_id, user_id)})

\* DataHandler.get_asset_info(txobj): list of (asset_group_id, asset_id, user_id)
dh_get_asset_info(txobj) == txobj.assets

\* DataHandler.search_transaction_topology: rows (id, base, point_to), by base
\* when traversing to the past and by point_to otherwise
dh_search_transaction_topology(dh, transaction_id, traverse_to_past) ==
    IF traverse_to_past
    THEN {<<0, e[1], e[2]>> : e \in {x \in dh.topology_table : x[1] = transaction_id}}
    ELSE {<<0, e[1], e[2]>> : e \in {x \in dh.topology_table : x[2] = transaction_id}}


\* ------------------------------------------------------------ bbc_network
\* BBcNetwork.create_domain: False when the id is already registered
create_domain(doms, domain_id) ==
    IF domain_id \in doms THEN [ret |-> FALSE, domains |-> doms]
    ELSE [ret |-> TRUE, domains |-> doms \cup {domain_id}]

\* BBcNetwork.remove_domain: False when the id is not registered
remove_domain(doms, domain_id) ==
    IF domain_id \notin doms THEN [ret |-> FALSE, domains |-> doms]
    ELSE [ret |-> TRUE, domains |-> doms \ {domain_id}]

\* ---------------------------------------------------- user_message_routing
\* the registered_users of a routing table nobody registered with
NoUsers == [u \in Users |-> {}]

\* UserMessageRouting.register_user: the socket joins the user's connections
\* when the registration is on multiple nodes, and is the user's connection
\* otherwise
register_user(tbl, user_id, socket, on_multiple_nodes) ==
    [tbl EXCEPT ![user_id] = IF on_multiple_nodes THEN @ \cup {socket} ELSE {socket}]

\* UserMessageRouting.unregister_user: the user's entry is removed
unregister_user(tbl, user_id, socket) == [tbl EXCEPT ![user_id] = {}]

\* a lookup of user_id finds an entry
IsRegistered(tbl, user_id) == tbl[user_id] # {}

\* umr.send_message_to_user(msg) on the routing table of domain_id; the
\* UserMessageRoutingDummy of an unknown domain absorbs the message
RoutedSend(doms, domain_id, msg) ==
    [via |-> IF domain_id \in doms THEN "umr" ELSE "dummy",
     domain_id |-> domain_id, msg |-> msg]

\* user_message_routing.direct_send_to_user(socket, msg)
DirectSend(socket, msg) == [via |-> "direct", socket |-> socket, msg |-> msg]

\* ---------------------------------------------------------------- bbc_core
_make_message_structure(domain_id, cmd, dstid, qid) ==
    [domain_id |-> domain_id, command |-> cmd, destination_user_id |-> dstid,
     query_id |-> qid, status |-> ESUCCESS]

\* response_info.setdefault(key, list()).append(item)
SetDefaultAppend(d, key, item) ==
    IF key \in DOMAIN d THEN [d EXCEPT ![key] = Append(@, item)]
    ELSE (key :> <<item>>) @@ d

\* _create_search_result: the loop over txobj_dict.items(), from item i on
RECURSIVE _create_search_result_from(_, _, _)
_create_search_result_from(items, i, response_info) ==
    IF i > Len(items) THEN response_info
    ELSE LET txid  == items[i][1]
             txobj == items[i][2]
         IN  IF txid # txobj.transaction_id
             THEN _create_search_result_from(items, i + 1,
                      SetDefaultAppend(response_info, "compromised_transactions",
                                       txobj.transaction_data))
             ELSE IF TupleTruth(validate_transaction_object(txobj))
             THEN _create_search_result_from(items, i + 1,
                      SetDefaultAppend(response_info, "transactions",
                                       txobj.transaction_data))
             ELSE _create_search_result_from(items, i + 1,
                      SetDefaultAppend(response_info, "compromised_transactions",
                                       txobj.transaction_data))

\* mutant: the id comparison is left out, only the validation decides
RECURSIVE _create_search_result_no_id_check_from(_, _, _)
_create_search_result_no_id_check_from(items, i, response_info) ==
    IF i > Len(items) THEN response_info
    ELSE _create_search_result_no_id_check_from(items, i + 1,
             SetDefaultAppend(response_info,
                 IF TupleTruth(validate_transaction_object(items[i][2]))
                 THEN "transactions" ELSE "compromised_transactions",
                 items[i][2].transaction_data))

_create_search_result_no_id_check(txobj_dict) ==
    _create_search_result_no_id_check_from(txobj_dict, 1, << >>)

_create_search_result(txobj_dict) ==
    _create_search_result_from(txobj_dict, 1, << >>)

\* mutant: the validation flag is not looked at
validate_transaction_no_flag(txdata) ==
    LET d == deserialize(txdata) IN
    IF ~d.ok
    THEN [kind |-> "None", stats |-> << <<"transaction", "invalid">> >>]
    ELSE [kind |-> "txobj", txobj |-> digest(d.txobj), stats |-> << >>]

\* BBcCoreService.validate_transaction: the parsed object, or None, and the
\* statistics it increments
validate_transaction(txdata) ==
    LET d == deserialize(txdata) IN
    IF ~d.ok
    THEN [kind |-> "None", stats |-> << <<"transaction", "invalid">> >>]
    ELSE LET txobj == digest(d.txobj)
             v     == validate_transaction_object(txobj)
         IN  IF v[1] THEN [kind |-> "txobj", txobj |-> txobj, stats |-> << >>]
             ELSE [kind |-> "None", stats |-> << <<"transaction", "invalid">> >>]

\* BBcCoreService.send_inserted_notification: the frame handed to
\* networking.broadcast_notification_message(domain_id, msg)
send_inserted_notification(domain_id, asset_group_ids, transaction_id) ==
    [domain_id |-> domain_id,
     msg |-> [transaction_id |-> transaction_id, domain_id |-> domain_id,
              count |-> Cardinality(asset_group_ids),
              asset_group_ids |-> asset_group_ids]]

\* mutant: the storage's failure sentinel is not checked
insert_transaction_unchecked(doms, store, domain_id, txdata, dbok) ==
    LET v == validate_transaction(txdata) IN
    IF domain_id = None \/ v.kind = "None" \/ domain_id \notin doms
    THEN [ret |-> [kind |-> "str", val |-> "Bad transaction format"],
          store |-> store, calls |-> {}, notif |-> << >>, stats |-> << >>]
    ELSE LET r == dh_insert_transaction(store[domain_id], txdata, v.txobj, dbok) IN
         [ret |-> [kind |-> "dict",
                   val |-> [transaction_id |-> v.txobj.transaction_id]],
          store |-> [store EXCEPT ![domain_id] = r.dh],
          calls |-> {<<domain_id, txdata>>}, notif |-> << >>, stats |-> << >>]

\* mutant: the notification is broadcast before the storage insert is made
insert_transaction_notify_first(doms, store, domain_id, txdata, dbok) ==
    LET cnt == << <<"transaction", "insert_count">> >>
        bad == << <<"transaction", "insert_fail_count">> >>
    IN
    IF domain_id = None
    THEN [ret |-> [kind |-> "str", val |-> "Set up the domain, first!"],
          store |-> store, calls |-> {}, notif |-> << >>, stats |-> cnt \o bad]
    ELSE LET v == validate_transaction(txdata) IN
    IF v.kind = "None"
    THEN [ret |-> [kind |-> "str", val |-> "Bad transaction format"],
          store |-> store, calls |-> {}, notif |-> << >>,
          stats |-> cnt \o v.stats \o bad]
    ELSE IF domain_id \notin doms
    THEN [ret |-> [kind |-> "raise", val |-> "KeyError"],
          store |-> store, calls |-> {}, notif |-> << >>, stats |-> cnt]
    ELSE LET r == dh_insert_transaction(store[domain_id], txdata, v.txobj, dbok)
             n == <<send_inserted_notification(domain_id,
                        {a[1] : a \in Range(v.txobj.assets)}, v.txobj.transaction_id)>>
         IN
    IF r.ret.kind = "None"
    THEN [ret |-> [kind |-> "str",
                   val |-> "Failed to insert a transaction into the ledger"],
          store |-> store, calls |-> {<<domain_id, txdata>>}, notif |-> n,
          stats |-> cnt \o bad]
    ELSE [ret |-> [kind |-> "dict",
                   val |-> [transaction_id |-> v.txobj.transaction_id]],
          store |-> [store EXCEPT ![domain_id] = r.dh],
          calls |-> {<<domain_id, txdata>>}, notif |-> n, stats |-> cnt]

\* BBcCoreService.insert_transaction on a core whose registry is doms and
\* whose domains' storages are store.  ret: the value returned; store: the
\* storages afterwards; calls: the storage inserts made; notif: the
\* notifications broadcast; stats: the counters incremented.
insert_transaction(doms, store, domain_id, txdata, dbok) ==
    LET cnt == << <<"transaction", "insert_count">> >>
        bad == << <<"transaction", "insert_fail_count">> >>
    IN
    IF domain_id = None
    THEN [ret |-> [kind |-> "str", val |-> "Set up the domain, first!"],
          store |-> store, calls |-> {}, notif |-> << >>, stats |-> cnt \o bad]
    ELSE LET v == validate_transaction(txdata) IN
    IF v.kind = "None"
    THEN [ret |-> [kind |-> "str", val |-> "Bad transaction format"],
          store |-> store, calls |-> {}, notif |-> << >>,
          stats |-> cnt \o v.stats \o bad]
    ELSE IF domain_id \notin doms
    THEN [ret |-> [kind |-> "raise", val |-> "KeyError"],
          store |-> store, calls |-> {}, notif |-> << >>, stats |-> cnt]
    ELSE LET r == dh_insert_transaction(store[domain_id], txdata, v.txobj, dbok) IN
    IF r.ret.kind = "None"
    THEN [ret |-> [kind |-> "str",
                   val |-> "Failed to insert a transaction into the ledger"],
          store |-> store, calls |-> {<<domain_id, txdata>>}, notif |-> << >>,
          stats |-> cnt \o bad]
    ELSE [ret |-> [kind |-> "dict",
                   val |-> [transaction_id |-> v.txobj.transaction_id]],
          store |-> [store EXCEPT ![domain_id] = r.dh],
          calls |-> {<<domain_id, txdata>>},
          notif |-> <<send_inserted_notification(domain_id, r.ret.val,
                                                 v.txobj.transaction_id)>>,
          stats |-> cnt]

\* mutant: the result keeps the list form of _create_search_result
_search_transaction_by_txid_list_form(doms, store, domain_id, transaction_id) ==
    IF domain_id = None \/ transaction_id = NoneId THEN [kind |-> "None"]
    ELSE IF domain_id \notin doms THEN [kind |-> "raise", val |-> "KeyError"]
    ELSE LET ret_txobj == dh_search_transaction(store[domain_id], transaction_id) IN
    IF Len(ret_txobj) = 0 THEN [kind |-> "None"]
    ELSE [kind |-> "dict",
          val |-> Update(_create_search_result(ret_txobj),
                         [transaction_id |-> transaction_id])]

\* BBcCoreService._search_transaction_by_txid
_search_transaction_by_txid(doms, store, domain_id, transaction_id) ==
    IF domain_id = None THEN [kind |-> "None"]
    ELSE IF transaction_id = NoneId THEN [kind |-> "None"]
    ELSE IF domain_id \notin doms THEN [kind |-> "raise", val |-> "KeyError"]
    ELSE LET ret_txobj == dh_search_transaction(store[domain_id], transaction_id) IN
    IF Len(ret_txobj) = 0 THEN [kind |-> "None"]
    ELSE LET r0 == _create_search_result(ret_txobj)
             r1 == Update(r0, [transaction_id |-> transaction_id])
             keep(d, k) == [x \in DOMAIN d \ {k} |-> d[x]]
         IN  IF "transactions" \in DOMAIN r1
             THEN [kind |-> "dict",
                   val |-> keep(Update(r1, [transaction_data |-> r1.transactions[1]]),
                                "transactions")]
             ELSE IF "compromised_transactions" \in DOMAIN r1
             THEN [kind |-> "dict",
                   val |-> keep(Update(r1, [compromised_transaction_data |->
                                               r1.compromised_transactions[1]]),
                                "compromised_transactions")]
             ELSE [kind |-> "dict", val |-> r1]


\* mutant: the user id is handed to the storage query as the asset group id
\* and the asset group id as the user id
search_transaction_with_condition_swapped(doms, store, domain_id, asset_group_id, asset_id, user_id, direction, count) ==
    IF domain_id = None THEN [kind |-> "None"]
    ELSE IF domain_id \notin doms THEN [kind |-> "raise", val |-> "KeyError"]
    ELSE LET ret_txobj == dh_search_transaction_cond(store[domain_id], user_id,
                              asset_id, asset_group_id, direction, count) IN
    IF Len(ret_txobj) = 0 THEN [kind |-> "None"]
    ELSE [kind |-> "dict", val |-> _create_search_result(ret_txobj)]

\* BBcCoreService.search_transaction_with_condition
search_transaction_with_condition(doms, store, domain_id, asset_group_id, asset_id, user_id, direction, count) ==
    IF domain_id = None THEN [kind |-> "None"]
    ELSE IF domain_id \notin doms THEN [kind |-> "raise", val |-> "KeyError"]
    ELSE LET ret_txobj == dh_search_transaction_cond(store[domain_id], asset_group_id,
                              asset_id, user_id, direction, count) IN
    IF Len(ret_txobj) = 0 THEN [kind |-> "None"]
    ELSE [kind |-> "dict", val |-> _create_search_result(ret_txobj)]

\* mutant: each filter is matched by some record, not all by one record
AssetFilterLoop_separately(info, j, flag, asset_group_id, user_id) ==
    /\ Len(info) > 0
    /\ asset_group_id # None => \E r \in Range(info) : r[1] = asset_group_id
    /\ user_id # None => \E r \in Range(info) : r[3] = user_id

\* _traverse_transactions: the loop over get_asset_info(...) that sets flag,
\* from record j on
RECURSIVE AssetFilterLoop(_, _, _, _, _)
AssetFilterLoop(info, j, flag, asset_group_id, user_id) ==
    IF j > Len(info) THEN flag
    ELSE LET f0 == TRUE
             f1 == IF asset_group_id # None /\ info[j][1] # asset_group_id
                   THEN FALSE ELSE f0
             f2 == IF user_id # None /\ info[j][3] # user_id THEN FALSE ELSE f1
         IN  IF f2 THEN f2
             ELSE AssetFilterLoop(info, j + 1, f2, asset_group_id, user_id)

\* _traverse_transactions: the loop over the topology rows of one transaction,
\* from row j on; rows holds the next_txid of each row
RECURSIVE TopologyLoop(_, _, _, _)
TopologyLoop(rows, j, txids, next_txids) ==
    IF j > Len(rows) THEN next_txids
    ELSE TopologyLoop(rows, j + 1, txids,
             IF rows[j] \notin txids THEN Append(next_txids, rows[j]) ELSE next_txids)

\* the next_txid of every row search_transaction_topology returns
NextTxids(dh, txid, traverse_to_past) ==
    SetToSeq({IF traverse_to_past THEN t[3] ELSE t[2] :
                 t \in dh_search_transaction_topology(dh, txid, traverse_to_past)})

\* mutant: the topology rows of a transaction are followed before the filter
\* is applied, so a transaction the filter rejects still extends the walk
RECURSIVE VisitLoop_expand_all(_, _, _, _, _, _, _)
VisitLoop_expand_all(dh, current_txids, k, st, asset_group_id, user_id, traverse_to_past) ==
    IF k > Len(current_txids) THEN st
    ELSE LET txid == current_txids[k] IN
    IF txid \in st.txids
    THEN VisitLoop_expand_all(dh, current_txids, k + 1, st, asset_group_id, user_id,
                              traverse_to_past)
    ELSE LET st1 == [st EXCEPT !.tx_count = @ + 1, !.txids = @ \cup {txid},
                               !.resolved = Append(@, txid)]
             ret_txobj == dh_search_transaction(dh, txid)
         IN
    IF Len(ret_txobj) = 0
    THEN VisitLoop_expand_all(dh, current_txids, k + 1, st1, asset_group_id, user_id,
                              traverse_to_past)
    ELSE LET txobj == ret_txobj[1][2]
             flag  == AssetFilterLoop(dh_get_asset_info(txobj), 1, FALSE,
                                      asset_group_id, user_id)
             keep  == ~((asset_group_id # None \/ user_id # None) /\ ~flag)
             st2 == [st1 EXCEPT
                        !.tx_brothers = IF keep THEN Append(@, txobj.transaction_data)
                                        ELSE @,
                        !.next_txids = TopologyLoop(
                            NextTxids(dh, txid, traverse_to_past), 1,
                            st1.txids, @)]
         IN  VisitLoop_expand_all(dh, current_txids, k + 1, st2, asset_group_id,
                                  user_id, traverse_to_past)

\* _traverse_transactions: the loop over current_txids, from entry k on.
\* st: tx_count, txids, tx_brothers, next_txids and the ids resolved so far.
RECURSIVE VisitLoop(_, _, _, _, _, _, _)
VisitLoop(dh, current_txids, k, st, asset_group_id, user_id, traverse_to_past) ==
    IF k > Len(current_txids) THEN st
    ELSE LET txid == current_txids[k] IN
    IF txid \in st.txids
    THEN VisitLoop(dh, current_txids, k + 1, st, asset_group_id, user_id, traverse_to_past)
    ELSE LET st1 == [st EXCEPT !.tx_count = @ + 1, !.txids = @ \cup {txid},
                               !.resolved = Append(@, txid)]
             ret_txobj == dh_search_transaction(dh, txid)
         IN
    IF Len(ret_txobj) = 0
    THEN VisitLoop(dh, current_txids, k + 1, st1, asset_group_id, user_id, traverse_to_past)
    ELSE LET txobj == ret_txobj[1][2]
             flag  == AssetFilterLoop(dh_get_asset_info(txobj), 1, FALSE,
                                      asset_group_id, user_id)
         IN
    IF (asset_group_id # None \/ user_id # None) /\ ~flag
    THEN VisitLoop(dh, current_txids, k + 1, st1, asset_group_id, user_id, traverse_to_past)
    ELSE LET st2 == [st1 EXCEPT
                        !.tx_brothers = Append(@, txobj.transaction_data),
                        !.next_txids = TopologyLoop(
                            NextTxids(dh, txid, traverse_to_past), 1,
                            st1.txids, @)]
         IN  VisitLoop(dh, current_txids, k + 1, st2, asset_group_id, user_id,
                       traverse_to_past)

\* mutant: the entry cap lets one transaction more through
RECURSIVE LayerLoop_cap_off_by_one(_, _, _, _, _, _, _)
LayerLoop_cap_off_by_one(dh, i, hop_count, o, asset_group_id, user_id, traverse_to_past) ==
    IF i >= hop_count THEN o
    ELSE IF o.tx_count + Len(o.current_txids) > TX_TRAVERSAL_MAX + 1
    THEN [o EXCEPT !.include_all_flag = FALSE, !.stopped = TRUE]
    ELSE LET st == VisitLoop(dh, o.current_txids, 1,
                       [tx_count |-> o.tx_count, txids |-> o.txids,
                        tx_brothers |-> << >>, next_txids |-> << >>,
                        resolved |-> o.resolved],
                       asset_group_id, user_id, traverse_to_past)
         IN  LayerLoop_cap_off_by_one(dh, i + 1, hop_count,
                 [o EXCEPT !.txtree = IF Len(st.tx_brothers) > 0
                                      THEN Append(@, st.tx_brothers) ELSE @,
                           !.tx_count = st.tx_count,
                           !.txids = st.txids,
                           !.current_txids = st.next_txids,
                           !.layers = @ + 1,
                           !.sizes = Append(@, Len(st.tx_brothers)),
                           !.resolved = st.resolved],
                 asset_group_id, user_id, traverse_to_past)

\* _traverse_transactions: the loop `for i in range(hop_count)`, from i on.
\* o: include_all_flag, txtree, tx_count, txids, current_txids, the number of
\* layers expanded and the ids resolved.
RECURSIVE LayerLoop(_, _, _, _, _, _, _)
LayerLoop(dh, i, hop_count, o, asset_group_id, user_id, traverse_to_past) ==
    IF i >= hop_count THEN o
    ELSE IF o.tx_count + Len(o.current_txids) > TX_TRAVERSAL_MAX
    THEN [o EXCEPT !.include_all_flag = FALSE, !.stopped = TRUE]
    ELSE LET st == VisitLoop(dh, o.current_txids, 1,
                       [tx_count |-> o.tx_count, txids |-> o.txids,
                        tx_brothers |-> << >>, next_txids |-> << >>,
                        resolved |-> o.resolved],
                       asset_group_id, user_id, traverse_to_past)
         IN  LayerLoop(dh, i + 1, hop_count,
                 [o EXCEPT !.txtree = IF Len(st.tx_brothers) > 0
                                      THEN Append(@, st.tx_brothers) ELSE @,
                           !.tx_count = st.tx_count,
                           !.txids = st.txids,
                           !.current_txids = st.next_txids,
                           !.layers = @ + 1,
                           !.sizes = Append(@, Len(st.tx_brothers)),
                           !.resolved = st.resolved],
                 asset_group_id, user_id, traverse_to_past)

\* BBcCoreService._traverse_transactions.  The tuple returned is
\* (include_all_flag, txtree); tx_count, txids, layers (the iterations of the
\* hop loop that expanded a layer), sizes (len(tx_brothers) at the end of each
\* of these iterations), stopped (the entry cap broke the loop) and
\* resolved (the ids handed to dh.search_transaction, in order) are the
\* function's locals when it returns.
_traverse_transactions(doms, store, domain_id, transaction_id, asset_group_id, user_id, direction, hop_count) ==
    IF domain_id = None THEN [kind |-> "None"]
    ELSE IF transaction_id = NoneId THEN [kind |-> "None"]
    ELSE IF domain_id \notin doms THEN [kind |-> "raise", val |-> "KeyError"]
    ELSE LET traverse_to_past == (direction = 1)
             clamp == hop_count > TX_TRAVERSAL_MAX * 2
             o == LayerLoop(store[domain_id], 0,
                      IF clamp THEN TX_TRAVERSAL_MAX * 2 ELSE hop_count,
                      [include_all_flag |-> ~clamp, txtree |-> << >>,
                       tx_count |-> 0, txids |-> {},
                       current_txids |-> <<transaction_id>>,
                       layers |-> 0, sizes |-> << >>, stopped |-> FALSE,
                       resolved |-> << >>],
                      asset_group_id, user_id, traverse_to_past)
         IN  [kind |-> "tuple", include_all_flag |-> o.include_all_flag,
              txtree |-> o.txtree, tx_count |-> o.tx_count, txids |-> o.txids,
              layers |-> o.layers, sizes |-> o.sizes, stopped |-> o.stopped,
              resolved |-> o.resolved]

\* BBcCoreService._error_reply.  ret: the value returned; sends: the messages
\* sent; a msg without domain_id makes msg[KeyType.domain_id] raise.
_error_reply(doms, msg, err_code, txt) ==
    LET m == Update(msg, [status |-> err_code, reason |-> txt]) IN
    IF "domain_id" \notin DOMAIN m
    THEN [kind |-> "raise", val |-> "KeyError", sends |-> << >>]
    ELSE IF m.domain_id \in doms
    THEN [kind |-> "bool", ret |-> TRUE, sends |-> <<RoutedSend(doms, m.domain_id, m)>>]
    ELSE [kind |-> "bool", ret |-> FALSE, sends |-> << >>]

\* BBcCoreService._param_check for a list param, from entry i on
RECURSIVE _param_check(_, _, _, _)
_param_check(doms, param, i, dat) ==
    IF i > Len(param) THEN [kind |-> "bool", ret |-> TRUE, sends |-> << >>]
    ELSE IF param[i] \notin DOMAIN dat
    THEN LET e == _error_reply(doms, dat, EINVALID_COMMAND, "lack of mandatory params")
         IN  IF e.kind = "raise" THEN e
             ELSE [kind |-> "bool", ret |-> FALSE, sends |-> e.sends]
    ELSE _param_check(doms, param, i + 1, dat)

\* mutant: the requester is not skipped
RECURSIVE distribute_loop_no_skip(_, _, _, _, _, _)
distribute_loop_no_skip(doms, domain_id, dat, destinations, i, st) ==
    IF i > Len(destinations) THEN st
    ELSE LET m0 == Update(st.msg, [destination_user_id |-> destinations[i],
                                   transaction_data |-> dat.transaction_data])
         IN  distribute_loop_no_skip(doms, domain_id, dat, destinations, i + 1,
                 [msg |-> m0, sends |-> Append(st.sends, RoutedSend(doms, domain_id, m0))])

\* _distribute_transaction_to_gather_signatures: the loop over destinations,
\* from entry i on.  st: msg (the one dict the loop rewrites) and the sends.
RECURSIVE distribute_loop(_, _, _, _, _, _)
distribute_loop(doms, domain_id, dat, destinations, i, st) ==
    IF i > Len(destinations) THEN st
    ELSE LET dst == destinations[i] IN
    IF dst = dat.source_user_id
    THEN distribute_loop(doms, domain_id, dat, destinations, i + 1, st)
    ELSE LET m0 == Update(st.msg, [destination_user_id |-> dst])
             m1 == IF "hint" \in DOMAIN dat THEN Update(m0, [hint |-> dat.hint]) ELSE m0
             m2 == Update(m1, [transaction_data |-> dat.transaction_data])
             m3 == IF "transactions" \in DOMAIN dat
                   THEN Update(m2, [transactions |-> dat.transactions]) ELSE m2
         IN  distribute_loop(doms, domain_id, dat, destinations, i + 1,
                 [msg |-> m3, sends |-> Append(st.sends, RoutedSend(doms, domain_id, m3))])

\* BBcCoreService._distribute_transaction_to_gather_signatures
_distribute_transaction_to_gather_signatures(doms, domain_id, dat) ==
    IF "destination_user_ids" \notin DOMAIN dat \/ "query_id" \notin DOMAIN dat
           \/ domain_id \notin doms
    THEN [kind |-> "raise", val |-> "KeyError", sends |-> << >>]
    ELSE LET msg == Update(_make_message_structure(domain_id, "REQUEST_SIGNATURE",
                                                   None, dat.query_id),
                           [source_user_id |-> dat.source_user_id])
             st  == distribute_loop(doms, domain_id, dat, dat.destination_user_ids, 1,
                                    [msg |-> msg, sends |-> << >>])
         IN  [kind |-> "bool", ret |-> TRUE, sends |-> st.sends]

\* what _process returns and does: (disconnection, new_info), or an exception;
\* the routing tables of the core afterwards; the messages sent
Returns(disconnection, new_info, reg, sends) ==
    [kind |-> "tuple", disconnection |-> disconnection, new_info |-> new_info,
     reg |-> reg, sends |-> sends]
Raises(e, reg, sends) == [kind |-> "raise", val |-> e, reg |-> reg, sends |-> sends]

\* _process, cmd == MsgType.REQUEST_GATHER_SIGNATURE
process_REQUEST_GATHER_SIGNATURE(doms, reg, socket, dat) ==
    LET pc == _param_check(doms, <<"domain_id", "transaction_data">>, 1, dat) IN
    IF pc.kind = "raise" THEN Raises(pc.val, reg, pc.sends)
    ELSE IF ~pc.ret THEN Returns(FALSE, NoneInfo, reg, pc.sends)
    ELSE LET r == _distribute_transaction_to_gather_signatures(doms, dat.domain_id, dat) IN
    IF r.kind = "raise" THEN Raises(r.val, reg, r.sends)
    ELSE IF ~r.ret
    THEN LET retmsg == _make_message_structure(dat.domain_id, "RESPONSE_GATHER_SIGNATURE",
                           dat.source_user_id, dat.query_id)
             e == _error_reply(doms, retmsg, EINVALID_COMMAND, "Fail to forward transaction")
         IN  IF e.ret THEN Returns(FALSE, NoneInfo, reg, r.sends \o e.sends)
             ELSE Returns(FALSE, NoneInfo, reg,
                      r.sends \o <<DirectSend(socket,
                          Update(retmsg, [status |-> EINVALID_COMMAND,
                                          reason |-> "Fail to forward transaction"]))>>)
    ELSE Returns(FALSE, NoneInfo, reg, r.sends)

\* _process, cmd == MsgType.REGISTER
process_REGISTER(doms, reg, socket, dat) ==
    IF "domain_id" \notin DOMAIN dat THEN Returns(FALSE, NoneInfo, reg, << >>)
    ELSE LET pc == _param_check(doms, <<"domain_id", "source_user_id">>, 1, dat) IN
    IF pc.kind = "raise" THEN Raises(pc.val, reg, pc.sends)
    ELSE IF ~pc.ret THEN Returns(FALSE, NoneInfo, reg, pc.sends)
    ELSE LET domain_id == dat.domain_id
             user_id   == dat.source_user_id
             multi     == IF "on_multinodes" \in DOMAIN dat THEN dat.on_multinodes
                          ELSE FALSE
         IN  Returns(FALSE, <<domain_id, user_id>>,
                 IF domain_id \in doms
                 THEN [reg EXCEPT ![domain_id] = register_user(@, user_id, socket, multi)]
                 ELSE reg,
                 << >>)

\* mutant: the routing table is not told
process_UNREGISTER_no_call(doms, reg, socket, dat) ==
    Returns(TRUE, NoneInfo, reg, << >>)

\* _process, cmd == MsgType.UNREGISTER
process_UNREGISTER(doms, reg, socket, dat) ==
    IF "domain_id" \in DOMAIN dat /\ dat.domain_id \in doms
    THEN Returns(TRUE, NoneInfo,
             [reg EXCEPT ![dat.domain_id] = unregister_user(@, dat.source_user_id, socket)],
             << >>)
    ELSE Returns(TRUE, NoneInfo, reg, << >>)

\* BBcCoreService.count_transactions
count_transactions(doms, store, domain_id, asset_group_id, asset_id, user_id) ==
    IF domain_id = None THEN [kind |-> "None", val |-> None]
    ELSE IF domain_id \notin doms THEN [kind |-> "raise", val |-> "KeyError"]
    ELSE [kind |-> "int",
          val |-> dh_count_transactions(store[domain_id], asset_group_id, asset_id, user_id)]

\* dat.get(key, default)
Get(dat, key, default) == IF key \in DOMAIN dat THEN dat[key] ELSE default

\* what a branch of _process leaves behind.  st: the core's registry (doms),
\* routing tables (reg), notification lists (nl) and storage (store); the
\* default arm of the return is (False, None)
Done(st, sends) ==
    [kind |-> "tuple", disconnection |-> FALSE, new_info |-> NoneInfo,
     st |-> st, sends |-> sends]
Fail(e, st, sends) == [kind |-> "raise", val |-> e, st |-> st, sends |-> sends]

\* `if not self._error_reply(msg=retmsg, ...): direct_send_to_user(socket, retmsg)`
ErrorReplyOrDirect(doms, socket, retmsg, err_code, txt) ==
    LET e == _error_reply(doms, retmsg, err_code, txt) IN
    IF e.ret THEN e.sends
    ELSE <<DirectSend(socket, Update(retmsg, [status |-> err_code, reason |-> txt]))>>

\* REQUEST_SEARCH_TRANSACTION: the reply for what the search returned
reply_SEARCH_TRANSACTION(st, socket, dat, retmsg, txinfo) ==
    IF txinfo.kind = "raise" THEN Fail(txinfo.val, st, << >>)
    ELSE IF txinfo.kind = "None"
    THEN Done(st, ErrorReplyOrDirect(st.doms, socket, retmsg, ENOTRANSACTION,
                                     "Cannot find transaction"))
    ELSE LET m == IF "compromised_transaction_data" \in DOMAIN txinfo.val
                  THEN Update(retmsg, [status |-> EBADTRANSACTION]) ELSE retmsg
         IN  Done(st, <<RoutedSend(st.doms, dat.domain_id, Update(m, txinfo.val))>>)

\* _process, cmd == MsgType.REQUEST_SEARCH_TRANSACTION
process_REQUEST_SEARCH_TRANSACTION(st, socket, dat) ==
    LET pc == _param_check(st.doms, <<"domain_id", "transaction_id">>, 1, dat) IN
    IF pc.kind = "raise" THEN Fail(pc.val, st, pc.sends)
    ELSE IF ~pc.ret THEN Done(st, pc.sends)
    ELSE IF "query_id" \notin DOMAIN dat THEN Fail("KeyError", st, << >>)
    ELSE reply_SEARCH_TRANSACTION(st, socket, dat,
             _make_message_structure(dat.domain_id, "RESPONSE_SEARCH_TRANSACTION",
                                     dat.source_user_id, dat.query_id),
             _search_transaction_by_txid(st.doms, st.store, dat.domain_id,
                                         dat.transaction_id))

\* REQUEST_SEARCH_WITH_CONDITIONS: the reply for what the search returned
reply_SEARCH_WITH_CONDITIONS(st, socket, dat, retmsg, txinfo) ==
    IF txinfo.kind = "raise" THEN Fail(txinfo.val, st, << >>)
    ELSE IF txinfo.kind = "None" \/ "transactions" \notin DOMAIN txinfo.val
    THEN Done(st, ErrorReplyOrDirect(st.doms, socket, retmsg, ENOTRANSACTION,
                                     "Cannot find transaction"))
    ELSE Done(st, <<RoutedSend(st.doms, dat.domain_id, Update(retmsg, txinfo.val))>>)

\* _process, cmd == MsgType.REQUEST_SEARCH_WITH_CONDITIONS
process_REQUEST_SEARCH_WITH_CONDITIONS(st, socket, dat) ==
    LET pc == _param_check(st.doms, <<"domain_id">>, 1, dat) IN
    IF pc.kind = "raise" THEN Fail(pc.val, st, pc.sends)
    ELSE IF ~pc.ret THEN Done(st, pc.sends)
    ELSE IF "query_id" \notin DOMAIN dat THEN Fail("KeyError", st, << >>)
    ELSE reply_SEARCH_WITH_CONDITIONS(st, socket, dat,
             _make_message_structure(dat.domain_id, "RESPONSE_SEARCH_WITH_CONDITIONS",
                                     dat.source_user_id, dat.query_id),
             search_transaction_with_condition(st.doms, st.store, dat.domain_id,
                 Get(dat, "asset_group_id", None), Get(dat, "asset_id", NoneId),
                 Get(dat, "user_id", None), Get(dat, "direction", 0),
                 Get(dat, "count", 1)))

\* REQUEST_COUNT_TRANSACTIONS: the reply for the count
reply_COUNT_TRANSACTIONS(st, socket, dat, retmsg, count) ==
    IF count.kind = "raise" THEN Fail(count.val, st, << >>)
    ELSE Done(st, <<RoutedSend(st.doms, dat.domain_id,
                               Update(retmsg, [count |-> count.val]))>>)

\* _process, cmd == MsgType.REQUEST_COUNT_TRANSACTIONS
process_REQUEST_COUNT_TRANSACTIONS(st, socket, dat) ==
    LET pc == _param_check(st.doms, <<"domain_id">>, 1, dat) IN
    IF pc.kind = "raise" THEN Fail(pc.val, st, pc.sends)
    ELSE IF ~pc.ret THEN Done(st, pc.sends)
    ELSE IF "query_id" \notin DOMAIN dat THEN Fail("KeyError", st, << >>)
    ELSE reply_COUNT_TRANSACTIONS(st, socket, dat,
             _make_message_structure(dat.domain_id, "RESPONSE_COUNT_TRANSACTIONS",
                                     dat.source_user_id, dat.query_id),
             count_transactions(st.doms, st.store, dat.domain_id,
                 Get(dat, "asset_group_id", None), Get(dat, "asset_id", NoneId),
                 Get(dat, "user_id", None)))

\* REQUEST_TRAVERSE_TRANSACTIONS: the reply for what the traversal returned.  A
\* None returned by _traverse_transactions cannot be unpacked into
\* (all_included, txtree).
reply_TRAVERSE_TRANSACTIONS(st, socket, dat, retmsg, r) ==
    IF r.kind = "raise" THEN Fail(r.val, st, << >>)
    ELSE IF r.kind = "None" THEN Fail("TypeError", st, << >>)
    ELSE IF Len(r.txtree) = 0
    THEN Done(st, ErrorReplyOrDirect(st.doms, socket, retmsg, ENOTRANSACTION,
                                     "Cannot find transaction"))
    ELSE Done(st, <<RoutedSend(st.doms, dat.domain_id,
                        Update(retmsg, [transaction_tree |-> r.txtree,
                                        all_included |-> r.include_all_flag]))>>)

\* _process, cmd == MsgType.REQUEST_TRAVERSE_TRANSACTIONS
process_REQUEST_TRAVERSE_TRANSACTIONS(st, socket, dat) ==
    LET pc == _param_check(st.doms,
                  <<"domain_id", "transaction_id", "direction", "hop_count">>, 1, dat) IN
    IF pc.kind = "raise" THEN Fail(pc.val, st, pc.sends)
    ELSE IF ~pc.ret THEN Done(st, pc.sends)
    ELSE IF "query_id" \notin DOMAIN dat THEN Fail("KeyError", st, << >>)
    ELSE reply_TRAVERSE_TRANSACTIONS(st, socket, dat,
             Update(_make_message_structure(dat.domain_id, "RESPONSE_TRAVERSE_TRANSACTIONS",
                                            dat.source_user_id, dat.query_id),
                    [transaction_id |-> dat.transaction_id]),
             _traverse_transactions(st.doms, st.store, dat.domain_id,
                 dat.transaction_id, Get(dat, "asset_group_id", None),
                 Get(dat, "user_id", None), dat.direction, dat.hop_count))

\* networking.broadcast_notification_message(domain_id=..., msg=...)
Broadcast(n) == [via |-> "broadcast", domain_id |-> n.domain_id, msg |-> n.msg]

\* REQUEST_INSERT: the reply for what insert_transaction returned and did
reply_INSERT(st, socket, dat, retmsg, r) ==
    LET bc  == [i \in 1..Len(r.notif) |-> Broadcast(r.notif[i])]
        st1 == [st EXCEPT !.store = r.store]
    IN
    IF r.ret.kind = "raise" THEN Fail(r.ret.val, st1, bc)
    ELSE IF r.ret.kind = "str"
    THEN Done(st1, bc \o ErrorReplyOrDirect(st.doms, socket, retmsg,
                                            EINVALID_COMMAND, r.ret.val))
    ELSE Done(st1, Append(bc, RoutedSend(st.doms, dat.domain_id,
                                         Update(retmsg, r.ret.val))))

\* _process, cmd == MsgType.REQUEST_INSERT; the storage insert succeeds
process_REQUEST_INSERT(st, socket, dat) ==
    LET pc == _param_check(st.doms, <<"domain_id", "transaction_data">>, 1, dat) IN
    IF pc.kind = "raise" THEN Fail(pc.val, st, pc.sends)
    ELSE IF ~pc.ret THEN Done(st, pc.sends)
    ELSE IF "query_id" \notin DOMAIN dat THEN Fail("KeyError", st, << >>)
    ELSE reply_INSERT(st, socket, dat,
             _make_message_structure(dat.domain_id, "RESPONSE_INSERT",
                                     dat.source_user_id, dat.query_id),
             insert_transaction(st.doms, st.store, dat.domain_id,
                                dat.transaction_data, TRUE))

\* _process, cmd == MsgType.RESPONSE_SIGNATURE
process_RESPONSE_SIGNATURE(st, socket, dat) ==
    LET pc == _param_check(st.doms,
                  <<"domain_id", "destination_user_id", "source_user_id">>, 1, dat) IN
    IF pc.kind = "raise" THEN Fail(pc.val, st, pc.sends)
    ELSE IF ~pc.ret THEN Done(st, pc.sends)
    ELSE IF "query_id" \notin DOMAIN dat THEN Fail("KeyError", st, << >>)
    ELSE LET retmsg == _make_message_structure(dat.domain_id, "RESPONSE_GATHER_SIGNATURE",
                           dat.destination_user_id, dat.query_id)
             src == [source_user_id |-> dat.source_user_id]
             out(m) == Done(st, <<RoutedSend(st.doms, dat.domain_id, Update(m, src))>>)
         IN
    IF "signature" \in DOMAIN dat
    THEN IF {"transaction_data_format", "ref_index"} \subseteq DOMAIN dat
         THEN out(Update(retmsg,
                  [transaction_data_format |-> dat.transaction_data_format,
                   signature |-> dat.signature, ref_index |-> dat.ref_index]))
         ELSE Fail("KeyError", st, << >>)
    ELSE IF "status" \notin DOMAIN dat
    THEN IF "reason" \in DOMAIN dat
         THEN out(Update(retmsg, [status |-> EOTHER, reason |-> dat.reason]))
         ELSE Fail("KeyError", st, << >>)
    ELSE IF dat.status < ESUCCESS
    THEN IF "reason" \in DOMAIN dat
         THEN out(Update(retmsg, [status |-> dat.status, reason |-> dat.reason]))
         ELSE Fail("KeyError", st, << >>)
    ELSE out(retmsg)

\* _process, cmd == MsgType.MESSAGE
process_MESSAGE(st, socket, dat) ==
    LET pc == _param_check(st.doms,
                  <<"domain_id", "source_user_id", "destination_user_id">>, 1, dat) IN
    IF pc.kind = "raise" THEN Fail(pc.val, st, pc.sends)
    ELSE IF ~pc.ret THEN Done(st, pc.sends)
    ELSE LET m == IF "is_anycast" \in DOMAIN dat
                  THEN Update(dat, [anycast_ttl |-> DEFAULT_ANYCAST_TTL]) ELSE dat
         IN  Done(st, <<RoutedSend(st.doms, dat.domain_id, m)>>)

\* UserMessageRouting.register_notification / unregister_notification
register_notification(nl, asset_group_id, user_id) == nl \cup {<<asset_group_id, user_id>>}
unregister_notification(nl, asset_group_id, user_id) == nl \ {<<asset_group_id, user_id>>}

\* _process, cmd == MsgType.REQUEST_INSERT_NOTIFICATION (cancel = FALSE) and
\* MsgType.CANCEL_INSERT_NOTIFICATION (cancel = TRUE); umr is None for a
\* message without domain_id
process_INSERT_NOTIFICATION(st, cancel, dat) ==
    IF "domain_id" \notin DOMAIN dat THEN Fail("AttributeError", st, << >>)
    ELSE IF "asset_group_id" \notin DOMAIN dat THEN Fail("KeyError", st, << >>)
    ELSE IF dat.domain_id \notin st.doms THEN Done(st, << >>)
    ELSE Done([st EXCEPT !.nl[dat.domain_id] =
                   IF cancel
                   THEN unregister_notification(@, dat.asset_group_id, dat.source_user_id)
                   ELSE register_notification(@, dat.asset_group_id, dat.source_user_id)],
              << >>)

\* _process, cmd == MsgType.REQUEST_GET_STATS, REQUEST_GET_CONFIG and
\* REQUEST_GET_DOMAINLIST: a snapshot written to the socket
process_REQUEST_GET_local(st, socket, dat) ==
    IF "query_id" \notin DOMAIN dat THEN Fail("KeyError", st, << >>)
    ELSE LET rsp(cmd) == _make_message_structure(Get(dat, "domain_id", None), cmd,
                             dat.source_user_id, dat.query_id)
         IN  Done(st, <<DirectSend(socket,
                 CASE dat.command = "REQUEST_GET_STATS" ->
                          Update(rsp("RESPONSE_GET_STATS"), [stats |-> "stats"])
                   [] dat.command = "REQUEST_GET_CONFIG" ->
                          Update(rsp("RESPONSE_GET_CONFIG"), [bbc_configuration |-> "config"])
                   [] OTHER ->
                          Update(rsp("RESPONSE_GET_DOMAINLIST"), [domain_list |-> st.doms]))>>)

\* _process, cmd == MsgType.REQUEST_GET_USERS; the routing stub of an unknown
\* domain has no registered user
process_REQUEST_GET_USERS(st, socket, dat) ==
    IF "query_id" \notin DOMAIN dat THEN Fail("KeyError", st, << >>)
    ELSE IF "domain_id" \notin DOMAIN dat THEN Fail("AttributeError", st, << >>)
    ELSE LET retmsg == _make_message_structure(dat.domain_id, "RESPONSE_GET_USERS",
                           dat.source_user_id, dat.query_id)
             users  == IF dat.domain_id \in st.doms
                       THEN {u \in Users : IsRegistered(st.reg[dat.domain_id], u)}
                       ELSE {}
         IN  Done(st, <<DirectSend(socket, Update(retmsg, [user_list |-> users]))>>)

\* _process, cmd == MsgType.REQUEST_GET_NODEID
process_REQUEST_GET_NODEID(st, socket, dat) ==
    IF "query_id" \notin DOMAIN dat THEN Fail("KeyError", st, << >>)
    ELSE IF "domain_id" \notin DOMAIN dat \/ dat.domain_id \notin st.doms
    THEN Fail("KeyError", st, << >>)
    ELSE Done(st, <<DirectSend(socket,
                      Update(_make_message_structure(dat.domain_id, "RESPONSE_GET_NODEID",
                                 dat.source_user_id, dat.query_id),
                             [node_id |-> "node_id"]))>>)

\* _process, cmd == MsgType.REQUEST_GET_NOTIFICATION_LIST
process_REQUEST_GET_NOTIFICATION_LIST(st, socket, dat) ==
    IF "query_id" \notin DOMAIN dat THEN Fail("KeyError", st, << >>)
    ELSE LET retmsg == _make_message_structure(Get(dat, "domain_id", None),
                           "RESPONSE_GET_NOTIFICATION_LIST",
                           dat.source_user_id, dat.query_id)
         IN
    IF "domain_id" \notin DOMAIN dat \/ dat.domain_id \notin st.doms
    THEN Done(st, <<DirectSend(socket,
                      Update(retmsg, [result |-> EINVALID_COMMAND,
                                      notification_list |-> {}]))>>)
    ELSE Done(st, <<DirectSend(socket,
                      Update(retmsg, [notification_list |-> st.nl[dat.domain_id]]))>>)

\* mutant: the domain is set up anew whether or not it exists
process_REQUEST_SETUP_DOMAIN_anew(st, socket, dat) ==
    LET pc == _param_check(st.doms, <<"domain_id">>, 1, dat) IN
    IF pc.kind = "raise" THEN Fail(pc.val, st, pc.sends)
    ELSE IF ~pc.ret THEN Done(st, pc.sends)
    ELSE IF "query_id" \notin DOMAIN dat THEN Fail("KeyError", st, << >>)
    ELSE LET d == dat.domain_id IN
    Done([st EXCEPT !.doms = @ \cup {d}, !.reg[d] = NoUsers, !.nl[d] = {}],
         <<DirectSend(socket,
             Update(_make_message_structure(None, "RESPONSE_SETUP_DOMAIN",
                        dat.source_user_id, dat.query_id),
                    [result |-> TRUE, domain_id |-> d]))>>)

\* _process, cmd == MsgType.REQUEST_SETUP_DOMAIN
process_REQUEST_SETUP_DOMAIN(st, socket, dat) ==
    LET pc == _param_check(st.doms, <<"domain_id">>, 1, dat) IN
    IF pc.kind = "raise" THEN Fail(pc.val, st, pc.sends)
    ELSE IF ~pc.ret THEN Done(st, pc.sends)
    ELSE IF "query_id" \notin DOMAIN dat THEN Fail("KeyError", st, << >>)
    ELSE LET d == dat.domain_id
             retmsg == _make_message_structure(None, "RESPONSE_SETUP_DOMAIN",
                           dat.source_user_id, dat.query_id)
             r == create_domain(st.doms, d)
             m == IF r.ret THEN Update(retmsg, [result |-> TRUE])
                  ELSE Update(retmsg, [result |-> FALSE, reason |-> "Already exists"])
             st1 == IF r.ret
                    THEN [st EXCEPT !.doms = r.domains, !.reg[d] = NoUsers, !.nl[d] = {}]
                    ELSE st
         IN  Done(st1, <<DirectSend(socket, Update(m, [domain_id |-> d]))>>)

\* _process, cmd == MsgType.REQUEST_CLOSE_DOMAIN
process_REQUEST_CLOSE_DOMAIN(st, socket, dat) ==
    IF "query_id" \notin DOMAIN dat THEN Fail("KeyError", st, << >>)
    ELSE LET d == Get(dat, "domain_id", None)
             retmsg == _make_message_structure(None, "RESPONSE_CLOSE_DOMAIN",
                           dat.source_user_id, dat.query_id)
             r == remove_domain(st.doms, d)
         IN  IF r.ret
             THEN Done([st EXCEPT !.doms = r.domains, !.reg[d] = NoUsers, !.nl[d] = {}],
                       <<DirectSend(socket, Update(retmsg, [result |-> TRUE]))>>)
             ELSE Done(st, <<DirectSend(socket,
                               Update(retmsg, [result |-> FALSE,
                                               reason |-> "No such domain"]))>>)

\* _process, cmd == MsgType.REQUEST_GET_STORED_MESSAGES: the call
\* umr.get_stored_messages(source_user_id, qid)
process_REQUEST_GET_STORED_MESSAGES(st, socket, dat) ==
    IF "query_id" \notin DOMAIN dat THEN Fail("KeyError", st, << >>)
    ELSE IF "domain_id" \notin DOMAIN dat THEN Fail("AttributeError", st, << >>)
    ELSE Done(st, <<[via |-> IF dat.domain_id \in st.doms
                             THEN "get_stored_messages" ELSE "dummy",
                     domain_id |-> dat.domain_id,
                     msg |-> [source_user_id |-> dat.source_user_id,
                              query_id |-> IF "request_async" \in DOMAIN dat
                                           THEN None ELSE dat.query_id]]>>)

\* mutant: a command that is not known is answered with an error reply
process_default_error_reply(st, socket, dat) ==
    Done(st, <<DirectSend(socket, Update(dat, [status |-> EINVALID_COMMAND]))>>)

\* _process, the default arm: the command is logged
process_default(st, socket, dat) == Done(st, << >>)

\* the result of a branch that touches the routing tables only
Lift(r, st) ==
    IF r.kind = "raise" THEN Fail(r.val, [st EXCEPT !.reg = r.reg], r.sends)
    ELSE [kind |-> "tuple", disconnection |-> r.disconnection, new_info |-> r.new_info,
          st |-> [st EXCEPT !.reg = r.reg], sends |-> r.sends]

\* BBcCoreService._process on a core in state st = [doms, reg, nl, store]
_process(st, socket, dat) ==
    LET pc == _param_check(st.doms, <<"command", "source_user_id">>, 1, dat) IN
    IF pc.kind = "raise" THEN Fail(pc.val, st, pc.sends)
    ELSE IF ~pc.ret THEN Done(st, pc.sends)
    ELSE LET cmd == dat.command IN
         CASE cmd = "REQUEST_SEARCH_TRANSACTION" ->
                  process_REQUEST_SEARCH_TRANSACTION(st, socket, dat)
           [] cmd = "REQUEST_SEARCH_WITH_CONDITIONS" ->
                  process_REQUEST_SEARCH_WITH_CONDITIONS(st, socket, dat)
           [] cmd = "REQUEST_COUNT_TRANSACTIONS" ->
                  process_REQUEST_COUNT_TRANSACTIONS(st, socket, dat)
           [] cmd = "REQUEST_TRAVERSE_TRANSACTIONS" ->
                  process_REQUEST_TRAVERSE_TRANSACTIONS(st, socket, dat)
           [] cmd = "REQUEST_GATHER_SIGNATURE" ->
                  Lift(process_REQUEST_GATHER_SIGNATURE(st.doms, st.reg, socket, dat), st)
           [] cmd = "REQUEST_INSERT" -> process_REQUEST_INSERT(st, socket, dat)
           [] cmd = "RESPONSE_SIGNATURE" -> process_RESPONSE_SIGNATURE(st, socket, dat)
           [] cmd = "MESSAGE" -> process_MESSAGE(st, socket, dat)
           [] cmd = "REGISTER" -> Lift(process_REGISTER(st.doms, st.reg, socket, dat), st)
           [] cmd = "UNREGISTER" -> Lift(process_UNREGISTER(st.doms, st.reg, socket, dat), st)
           [] cmd = "REQUEST_INSERT_NOTIFICATION" -> process_INSERT_NOTIFICATION(st, FALSE, dat)
           [] cmd = "CANCEL_INSERT_NOTIFICATION" -> process_INSERT_NOTIFICATION(st, TRUE, dat)
           [] cmd \in {"REQUEST_GET_STATS", "REQUEST_GET_CONFIG", "REQUEST_GET_DOMAINLIST"} ->
                  process_REQUEST_GET_local(st, socket, dat)
           [] cmd = "REQUEST_GET_USERS" -> process_REQUEST_GET_USERS(st, socket, dat)
           [] cmd = "REQUEST_GET_NODEID" -> process_REQUEST_GET_NODEID(st, socket, dat)
           [] cmd = "REQUEST_GET_NOTIFICATION_LIST" ->
                  process_REQUEST_GET_NOTIFICATION_LIST(st, socket, dat)
           [] cmd = "REQUEST_SETUP_DOMAIN" -> process_REQUEST_SETUP_DOMAIN(st, socket, dat)
           [] cmd = "REQUEST_CLOSE_DOMAIN" -> process_REQUEST_CLOSE_DOMAIN(st, socket, dat)
           [] cmd = "REQUEST_GET_STORED_MESSAGES" ->
                  process_REQUEST_GET_STORED_MESSAGES(st, socket, dat)
           [] OTHER -> process_default(st, socket, dat)

\* stats.update_stats_increment / update_stats_decrement on one counter
update_stats_increment(counter, value) == counter + value
update_stats_decrement(counter, value) == counter - value

\* _handler after its loop: the bound identity is unregistered, then the
\* socket is shut down and closed.  A user_info whose domain is not in the
\* registry makes networking.domains[user_info[0]] raise, outside the try:
\* the handler ends there, the socket still open.
teardown(doms, reg, info) ==
    IF info = NoneInfo THEN [handler |-> "closed", reg |-> reg]
    ELSE IF info[1] \notin doms THEN [handler |-> "raised", reg |-> reg]
    ELSE [handler |-> "closed",
          reg |-> [reg EXCEPT ![info[1]] = unregister_user(@, info[2], "any")]]

\* ------------------------------------------------------- message framing
\* the query id of a connection's k-th message
QueryId(k) == <<"q1", "q2", "q3", "q4", "q5">>[k]

\* the length of the payload of the k-th frame
PayloadLen(k) == 1 + (k % 2)

\* the k-th frame on the wire: a header that tells the id and the length of
\* the payload, then the payload, unit by unit
Frame(k) ==
    <<[id |-> QueryId(k), part |-> 0, len |-> PayloadLen(k)]>>
    \o [i \in 1..PayloadLen(k) |-> [id |-> QueryId(k), part |-> i, len |-> PayloadLen(k)]]

\* the frames k..n one after the other
RECURSIVE Wire(_, _)
Wire(k, n) == IF k > n THEN << >> ELSE Frame(k) \o Wire(k + 1, n)

\* the message a complete frame of user u decodes to: a snapshot request with
\* the frame's id; a frame pieced together from different frames is garbled
Decode(frame, u) ==
    [command |-> IF \A i \in 1..Len(frame) :
                        frame[i].id = frame[1].id /\ frame[i].part = i - 1
                 THEN "REQUEST_GET_STATS" ELSE "GARBLED",
     source_user_id |-> u, query_id |-> frame[1].id]

\* message_key_types.Message.recv(buf): the bytes join the parser's buffer
msg_parser_recv(buffer, buf) == buffer \o buf

\* mutant: the newest complete frame of the buffer is parsed first
msg_parser_parse_newest(buffer, u) ==
    LET starts == {i \in 1..Len(buffer) :
                      buffer[i].part = 0 /\ i + buffer[i].len <= Len(buffer)}
    IN  IF starts = {} THEN [kind |-> "None"]
        ELSE LET i == CHOOSE j \in starts : \A k \in starts : k <= j
                 n == 1 + buffer[i].len
             IN  [kind |-> "msg", msg |-> Decode(SubSeq(buffer, i, i + n - 1), u),
                  buffer |-> SubSeq(buffer, 1, i - 1)
                             \o SubSeq(buffer, i + n, Len(buffer))]

\* message_key_types.Message.parse(): the message of the first frame of the
\* buffer when the frame is complete, which leaves the buffer; None otherwise
msg_parser_parse(buffer, u) ==
    IF Len(buffer) = 0 \/ Len(buffer) < 1 + buffer[1].len THEN [kind |-> "None"]
    ELSE LET n == 1 + buffer[1].len
         IN  [kind |-> "msg", msg |-> Decode(SubSeq(buffer, 1, n), u),
              buffer |-> SubSeq(buffer, n + 1, Len(buffer))]

\* ------------------------------------------------------------------ state
VARIABLES
    domains,           \* per core: the ids in networking.domains
    storage,           \* per domain id: its storage, shared by the cores
    registered_users,  \* per core and domain: user id -> the sockets registered
    insert_notification_list, \* per core and domain: <<asset_group_id, user_id>> subscribed
    handler,           \* per socket: where its _handler is
    user_info,         \* per socket: _handler's user_info (NoneInfo or <<domain_id, user_id>>)
    last,              \* the operation handled last, its inputs and its results
    tin,               \* traversal: the call's inputs
    tout,              \* traversal: the call's result
    stream,            \* per socket: the bytes on their way, the parser's buffer
                       \* and the handler's place in its loop; the messages handled
    client_total_num   \* the stats counter "client" / "total_num"

vars == <<domains, storage, registered_users, insert_notification_list, handler, user_info, last, tin, tout, stream, client_total_num>>

\* the user whose messages a socket carries
SocketUser == [s \in Sockets |-> IF s = "s1" THEN "u1" ELSE "u2"]

\* no bytes are on their way and nothing was handled
NoStream ==
    [conn |-> [s \in Sockets |-> [wire |-> << >>, buffer |-> << >>, pos |-> "recv",
                                  read |-> 0]],
     log |-> << >>]


\* ------------------------------------------------------ ledger: the inputs
\* the contents submitted: content n points to content n - 1
LedgerPtrs(n) == IF n = 1 THEN {} ELSE {TxIdOf(n - 1)}
LedgerAssets(n) ==
    << <<IF n % 2 = 1 THEN "g1" ELSE "g2", n, IF n = 1 THEN "u1" ELSE "u2">> >>
\* parseable data of every content, signed well or badly
ParsedTxData ==
    {TxData(TRUE, n, LedgerPtrs(n), LedgerAssets(n), s) : n \in 1..NumTx, s \in BOOLEAN}
\* data that does not parse
BadFormat == TxData(FALSE, 0, {}, << >>, FALSE)
LedgerTxData == ParsedTxData \cup {BadFormat}
LedgerTxIds == {TxIdOf(n) : n \in 1..NumTx}

\* the conditions searched for: <<asset_group_id, asset_id, user_id>>
SearchConditions ==
    {<<None, NoneId, None>>, <<"g1", 1, None>>, <<"g2", NoneId, "u2">>}

InitLedger ==
    /\ domains = [c \in Cores |-> {}]
    /\ storage = [d \in DomainIds |-> EmptyStorage]
    /\ registered_users = [c \in Cores |-> [d \in DomainIds |-> NoUsers]]
    /\ insert_notification_list = [c \in Cores |-> [d \in DomainIds |-> {}]]
    /\ handler = [s \in Sockets |-> "idle"]
    /\ user_info = [s \in Sockets |-> NoneInfo]
    /\ last = [op |-> "init"]
    /\ tin = [kind |-> "none"]
    /\ tout = [kind |-> "none"]
    /\ stream = NoStream
    /\ client_total_num = 0

\* networking.create_domain on core c (test_01_setup, REQUEST_SETUP_DOMAIN)
CreateDomain(c, d) ==
    LET r == create_domain(domains[c], d) IN
    /\ domains' = [domains EXCEPT ![c] = r.domains]
    /\ registered_users' =
           IF r.ret THEN [registered_users EXCEPT ![c][d] = NoUsers]
           ELSE registered_users
    /\ insert_notification_list' =
           IF r.ret THEN [insert_notification_list EXCEPT ![c][d] = {}]
           ELSE insert_notification_list
    /\ last' = [op |-> "create_domain", core |-> c, domain_id |-> d, ret |-> r.ret]
    /\ UNCHANGED <<storage, handler, user_info, tin, tout, stream, client_total_num>>

\* networking.remove_domain on core c
RemoveDomain(c, d) ==
    LET r == remove_domain(domains[c], d) IN
    /\ domains' = [domains EXCEPT ![c] = r.domains]
    /\ registered_users' =
           IF r.ret THEN [registered_users EXCEPT ![c][d] = NoUsers]
           ELSE registered_users
    /\ insert_notification_list' =
           IF r.ret THEN [insert_notification_list EXCEPT ![c][d] = {}]
           ELSE insert_notification_list
    /\ last' = [op |-> "remove_domain", core |-> c, domain_id |-> d, ret |-> r.ret]
    /\ UNCHANGED <<storage, handler, user_info, tin, tout, stream, client_total_num>>

\* cores[c].insert_transaction(d, txdata); dbok: the storage insert succeeds
InsertTransaction(c, d, txdata, dbok) ==
    LET r == insert_transaction(domains[c], storage, d, txdata, dbok) IN
    /\ storage' = r.store
    /\ last' = [op |-> "insert_transaction", core |-> c, domain_id |-> d,
                txdata |-> txdata, dbok |-> dbok, ret |-> r.ret,
                calls |-> r.calls, notif |-> r.notif, stats |-> r.stats,
                stored |-> r.store # storage]
    /\ UNCHANGED <<domains, registered_users, insert_notification_list, handler, user_info, tin, tout, stream, client_total_num>>

\* cores[c]._search_transaction_by_txid(d, txid)
SearchTransactionByTxid(c, d, txid) ==
    /\ last' = [op |-> "_search_transaction_by_txid", core |-> c, domain_id |-> d,
                transaction_id |-> txid,
                ret |-> _search_transaction_by_txid(domains[c], storage, d, txid)]
    /\ UNCHANGED <<domains, storage, registered_users, insert_notification_list, handler, user_info, tin, tout, stream, client_total_num>>

\* cores[c].search_transaction_with_condition(d, ...)
SearchTransactionWithCondition(c, d, asset_group_id, asset_id, user_id, direction, count) ==
    /\ last' = [op |-> "search_transaction_with_condition", core |-> c, domain_id |-> d,
                asset_group_id |-> asset_group_id, asset_id |-> asset_id,
                user_id |-> user_id, direction |-> direction, count |-> count,
                ret |-> search_transaction_with_condition(domains[c], storage, d,
                            asset_group_id, asset_id, user_id, direction, count)]
    /\ UNCHANGED <<domains, storage, registered_users, insert_notification_list, handler, user_info, tin, tout, stream, client_total_num>>

\* What altering the stored bytes of content n can leave behind: the same
\* content with a signature that no longer verifies, or another content
\* (signed by whoever altered it).
Corruptions(n) ==
    {TxData(TRUE, n, LedgerPtrs(n), LedgerAssets(n), FALSE),
     TxData(TRUE, (n % NumTx) + 1, LedgerPtrs((n % NumTx) + 1),
            LedgerAssets((n % NumTx) + 1), TRUE)}

\* The stored bytes of a transaction are altered behind the core's back (the
\* case the compromised classification exists for): the row keeps its id.
\* A row is altered once.
CorruptStorage(d, txid, txdata) ==
    /\ txid \in StoredIds(storage[d])
    /\ storage[d].transaction_table[txid] \in
           {x \in ParsedTxData : x.sig /\ TxIdOf(x.n) = txid}
    /\ txdata \in Corruptions(storage[d].transaction_table[txid].n)
    /\ storage' = [storage EXCEPT ![d].transaction_table[txid] = txdata]
    /\ last' = [op |-> "corrupt", domain_id |-> d, transaction_id |-> txid]
    /\ UNCHANGED <<domains, registered_users, insert_notification_list, handler, user_info, tin, tout, stream, client_total_num>>

NextLedger ==
    \/ \E c \in Cores, d \in DomainIds : CreateDomain(c, d)
    \/ \E c \in Cores, d \in DomainIds : RemoveDomain(c, d)
    \/ \E c \in Cores, d \in DomainIds, txdata \in LedgerTxData, dbok \in BOOLEAN :
          InsertTransaction(c, d, txdata, dbok)
    \/ \E c \in Cores, txdata \in LedgerTxData : InsertTransaction(c, None, txdata, TRUE)
    \/ \E c \in Cores, d \in DomainIds, txid \in LedgerTxIds \cup {NoneId} :
          SearchTransactionByTxid(c, d, txid)
    \/ \E c \in Cores : SearchTransactionByTxid(c, None, TxIdOf(1))
    \/ \E c \in Cores, d \in DomainIds, cond \in SearchConditions,
          dc \in {<<0, 1>>, <<1, 1>>, <<0, 2>>} :
          SearchTransactionWithCondition(c, d, cond[1], cond[2], cond[3], dc[1], dc[2])
    \/ \E c \in Cores : SearchTransactionWithCondition(c, None, None, NoneId, None, 0, 1)
    \/ \E d \in DomainIds, txid \in LedgerTxIds, txdata \in ParsedTxData :
          CorruptStorage(d, txid, txdata)

SpecLedger == InitLedger /\ [][NextLedger]_vars


\* --------------------------------------------------- traversal: the inputs
\* the asset records of the transaction with content n
NodeAssets(n) ==
    CASE n = 1 -> << <<"g1", 1, "u1">> >>
      [] n = 2 -> << <<"g1", 2, "u2">>, <<"g2", 3, "u1">> >>
      [] n = 3 -> << <<"g2", 4, "u2">> >>
      [] n = 4 -> << >>
      [] OTHER -> << <<"g1", n, "u1">> >>

\* The storage holding the transactions with contents in nodes, where content
\* a points to content b for every <<a, b>> in edges.  A content outside
\* nodes is pointed to but not stored.
GraphStorage(nodes, edges) ==
    [transaction_table |->
        [k \in {TxIdOf(n) : n \in nodes} |->
            LET n == k - 100 IN
            TxData(TRUE, n, {TxIdOf(e[2]) : e \in {x \in edges : x[1] = n}},
                   NodeAssets(n), TRUE)],
     topology_table |->
        {<<TxIdOf(e[1]), TxIdOf(e[2])>> : e \in {x \in edges : x[1] \in nodes}}]

\* every graph on NumNodes contents with at most MaxEdges pointers, complete
\* or with the last content not stored
SmallGraphs ==
    LET N  == 1..NumNodes
        Es == {E \in SUBSET (N \X N) : Cardinality(E) <= MaxEdges}
    IN  {GraphStorage(N, E) : E \in Es}
        \cup {GraphStorage(N \ {NumNodes}, E) :
                 E \in {F \in Es : \A e \in F : e[1] # NumNodes}}

\* a chain 1 -> 2 -> ... -> len, closed to a cycle by len -> 1 when cyclic
Chain(len, cyclic) ==
    GraphStorage(1..len,
        {<<i, i + 1>> : i \in 1..(len - 1)} \cup (IF cyclic THEN {<<len, 1>>} ELSE {}))

\* content 1 points to a contents, each of which points to the same b contents
Fan(a, b) ==
    GraphStorage(1..(1 + a + b),
        {<<1, 1 + i>> : i \in 1..a}
        \cup {<<1 + i, 1 + a + j>> : i \in 1..a, j \in 1..b})

LargeGraphs ==
    {Chain(len, cyc) : len \in {29, 30, 31}, cyc \in BOOLEAN}
    \cup {Fan(5, 4), Fan(5, 5), Fan(29, 0), Fan(30, 0)}

\* <<asset_group_id, user_id>> filters
TraverseFilters == {<<None, None>>, <<"g1", "u1">>, <<None, "u2">>}

InitTraverse ==
    /\ domains = [c \in Cores |-> DomainIds]
    /\ storage \in [DomainIds -> SmallGraphs \cup LargeGraphs]
    /\ registered_users = [c \in Cores |-> [d \in DomainIds |-> NoUsers]]
    /\ insert_notification_list = [c \in Cores |-> [d \in DomainIds |-> {}]]
    /\ handler = [s \in Sockets |-> "idle"]
    /\ user_info = [s \in Sockets |-> NoneInfo]
    /\ last = [op |-> "init"]
    /\ tin = [kind |-> "none"]
    /\ tout = [kind |-> "none"]
    /\ stream = NoStream
    /\ client_total_num = 0

\* _traverse_transactions(d, TxIdOf(n), asset_group_id=g, user_id=u,
\* direction=dir, hop_count=hop) on core c
Traverse(c, d, n, g, u, dir, hop) ==
    /\ tin.kind = "none"
    /\ tin' = [kind |-> "call", core |-> c, domain_id |-> d,
               transaction_id |-> TxIdOf(n), asset_group_id |-> g, user_id |-> u,
               direction |-> dir, hop_count |-> hop]
    /\ tout' = _traverse_transactions(domains[c], storage, d, TxIdOf(n), g, u, dir, hop)
    /\ UNCHANGED <<domains, storage, registered_users, insert_notification_list, handler, user_info, last, stream, client_total_num>>

NextTraverse ==
    \/ \E n \in {1, 2, NumNodes}, f \in TraverseFilters, dir \in {0, 1},
          hop \in {0, 1, 3} :
          /\ storage["d1"] \in SmallGraphs
          /\ Traverse("c1", "d1", n, f[1], f[2], dir, hop)
    \/ \E dir \in {0, 1}, hop \in {3, 30, 31, 60, 61} :
          /\ storage["d1"] \in LargeGraphs
          /\ Traverse("c1", "d1", 1, None, None, dir, hop)

SpecTraverse == InitTraverse /\ [][NextTraverse]_vars

\* -------------------------------------------------- connections: the inputs
\* the core the sockets are accepted by
HandlerCore == "c1"

\* dict d without key k
Without(d, k) == [x \in DOMAIN d \ {k} |-> d[x]]

\* the sequences over S of length at most n
SeqsUpTo(S, n) == UNION {[1..k -> S] : k \in 0..n}

\* REGISTER and UNREGISTER messages, with and without domain_id
RegisterMessages ==
    LET full == {[command |-> "REGISTER", source_user_id |-> u, domain_id |-> d] :
                    u \in Users, d \in DomainIds}
    IN  full \cup {Update(m, [on_multinodes |-> TRUE]) : m \in full}
             \cup {Without(m, "domain_id") : m \in full}
UnregisterMessages ==
    LET full == {[command |-> "UNREGISTER", source_user_id |-> u, domain_id |-> d] :
                    u \in Users, d \in DomainIds}
    IN  full \cup {Without(m, "domain_id") : m \in full}

\* REQUEST_GATHER_SIGNATURE messages: every destination list up to MaxDest
\* entries, with and without the optional keys, and with a key missing
GatherMessages ==
    LET full == {[command |-> "REQUEST_GATHER_SIGNATURE", source_user_id |-> u,
                  domain_id |-> d, transaction_data |-> "txdata", query_id |-> "q1",
                  destination_user_ids |-> L] :
                    u \in Users, d \in DomainIds, L \in SeqsUpTo(Users, MaxDest)}
        short == {m \in full : Len(m.destination_user_ids) = 1}
    IN  full \cup {Update(m, [hint |-> "hint", transactions |-> <<"txdata0">>]) :
                      m \in full}
             \cup {Update(m, [query_id |-> "q2", transaction_data |-> "txdata2"]) :
                      m \in short}
             \cup {Without(m, k) : m \in short,
                      k \in {"domain_id", "transaction_data", "query_id",
                             "destination_user_ids"}}

InitConnection == InitLedger

\* StreamServer hands an accepted socket to _handler: user_info = None
Accept(s) ==
    /\ handler[s] = "idle"
    /\ handler' = [handler EXCEPT ![s] = "running"]
    /\ user_info' = [user_info EXCEPT ![s] = NoneInfo]
    /\ last' = [op |-> "accept", socket |-> s]
    /\ client_total_num' = update_stats_increment(client_total_num, 1)
    /\ UNCHANGED <<domains, storage, registered_users, insert_notification_list, tin, tout, stream>>

\* the state of core c as _process sees it
CoreState(c) ==
    [doms |-> domains[c], reg |-> registered_users[c],
     nl |-> insert_notification_list[c], store |-> storage]

\* _handler with message dat of socket s once _process has returned or raised
\* r: an exception ends the loop and the teardown follows
Handled(s, dat, r) ==
    LET c    == HandlerCore
        info == IF r.kind = "tuple" /\ ~r.disconnection /\ r.new_info # NoneInfo
                THEN r.new_info ELSE user_info[s]
        t    == teardown(r.st.doms, r.st.reg, info)
    IN
    /\ handler[s] = "running"
    /\ user_info' = [user_info EXCEPT ![s] = info]
    /\ IF r.kind = "raise"
       THEN /\ handler' = [handler EXCEPT ![s] = t.handler]
            /\ registered_users' = [registered_users EXCEPT ![c] = t.reg]
            /\ client_total_num' = IF t.handler = "closed"
                                   THEN update_stats_decrement(client_total_num, 1)
                                   ELSE client_total_num
       ELSE /\ handler' = handler
            /\ registered_users' = [registered_users EXCEPT ![c] = r.st.reg]
            /\ client_total_num' = client_total_num
    /\ domains' = [domains EXCEPT ![c] = r.st.doms]
    /\ insert_notification_list' = [insert_notification_list EXCEPT ![c] = r.st.nl]
    /\ storage' = r.st.store
    /\ last' = [op |-> "receive", socket |-> s, dat |-> dat, kind |-> r.kind,
                disconnection |-> IF r.kind = "tuple" THEN r.disconnection ELSE FALSE,
                sends |-> r.sends,
                hosted |-> "domain_id" \in DOMAIN dat /\ dat.domain_id \in domains[c],
                bound |-> user_info[s]]
    /\ UNCHANGED <<tin, tout>>

\* _handler parses message dat from socket s and gives it to _process
Receive(s, dat) ==
    /\ Handled(s, dat, _process(CoreState(HandlerCore), s, dat))
    /\ UNCHANGED stream

\* the peer closes socket s: recv returns no bytes, the loop ends and the
\* teardown follows
PeerClose(s) ==
    LET c == HandlerCore
        t == teardown(domains[c], registered_users[c], user_info[s])
    IN
    /\ handler[s] = "running"
    /\ handler' = [handler EXCEPT ![s] = t.handler]
    /\ registered_users' = [registered_users EXCEPT ![c] = t.reg]
    /\ last' = [op |-> "peer_close", socket |-> s, bound |-> user_info[s]]
    /\ client_total_num' = IF t.handler = "closed"
                           THEN update_stats_decrement(client_total_num, 1)
                           ELSE client_total_num
    /\ UNCHANGED <<domains, storage, insert_notification_list, user_info, tin, tout, stream>>

NextConnection ==
    \/ \E d \in DomainIds : CreateDomain(HandlerCore, d)
    \/ \E d \in DomainIds : RemoveDomain(HandlerCore, d)
    \/ \E s \in Sockets : Accept(s)
    \/ \E s \in Sockets, dat \in RegisterMessages : Receive(s, dat)
    \/ \E s \in Sockets, dat \in UnregisterMessages : Receive(s, dat)
    \/ \E s \in Sockets : PeerClose(s)

SpecConnection == InitConnection /\ [][NextConnection]_vars

NextGather ==
    \/ \E d \in DomainIds : CreateDomain(HandlerCore, d)
    \/ \E d \in DomainIds : RemoveDomain(HandlerCore, d)
    \/ \E s \in Sockets : Accept(s)
    \/ \E s \in Sockets, dat \in GatherMessages : Receive(s, dat)

SpecGather == InitConnection /\ [][NextGather]_vars

\* ---------------------------------------------------- dispatcher: the inputs
\* the socket whose messages are followed
DispatchSockets == {"s1"}

\* the commands _process has an arm for
KnownCommands ==
    {"REQUEST_SEARCH_TRANSACTION", "REQUEST_SEARCH_WITH_CONDITIONS",
     "REQUEST_COUNT_TRANSACTIONS", "REQUEST_TRAVERSE_TRANSACTIONS",
     "REQUEST_GATHER_SIGNATURE", "REQUEST_INSERT", "RESPONSE_SIGNATURE", "MESSAGE",
     "REGISTER", "UNREGISTER", "REQUEST_INSERT_NOTIFICATION",
     "CANCEL_INSERT_NOTIFICATION", "REQUEST_GET_STATS", "REQUEST_GET_CONFIG",
     "REQUEST_GET_DOMAINLIST", "REQUEST_GET_USERS", "REQUEST_GET_NODEID",
     "REQUEST_GET_NOTIFICATION_LIST", "REQUEST_SETUP_DOMAIN", "REQUEST_CLOSE_DOMAIN",
     "REQUEST_GET_STORED_MESSAGES"}

\* the commands answered with a local snapshot
GetCommands ==
    {"REQUEST_GET_STATS", "REQUEST_GET_CONFIG", "REQUEST_GET_DOMAINLIST",
     "REQUEST_GET_USERS", "REQUEST_GET_NODEID", "REQUEST_GET_NOTIFICATION_LIST"}

\* a request of user u1 on domain d1 with query id q1
Request(cmd, more) ==
    Update([command |-> cmd, source_user_id |-> "u1", domain_id |-> "d1",
            query_id |-> "q1"], more)

\* the one content clients submit and look for
DispatchTxData == TxData(TRUE, 1, {}, << <<"g1", 1, "u1">> >>, TRUE)

\* complete messages of every command, and one of a command that is not known
FullMessages ==
    {Request("REQUEST_SEARCH_TRANSACTION", [transaction_id |-> t]) :
        t \in {TxIdOf(1), NoneId}}
    \cup {Request("REQUEST_TRAVERSE_TRANSACTIONS",
                  [transaction_id |-> t, direction |-> 1, hop_count |-> 3]) :
             t \in {TxIdOf(1), NoneId}}
    \cup {Request("REQUEST_INSERT", [transaction_data |-> t]) :
             t \in {DispatchTxData, [DispatchTxData EXCEPT !.fmt = FALSE]}}
    \cup {Request("RESPONSE_SIGNATURE", Update([destination_user_id |-> "u2"], m)) :
             m \in {[signature |-> "sig", transaction_data_format |-> 0, ref_index |-> 0],
                    [reason |-> "no"], [status |-> EOTHER, reason |-> "no"],
                    [status |-> ESUCCESS], [status |-> EOTHER], << >>}}
    \cup {Request("MESSAGE", Update([destination_user_id |-> "u2"], m)) :
             m \in {[message |-> "hello"], [is_anycast |-> TRUE]}}
    \cup {Request(cmd, [asset_group_id |-> "g1"]) :
             cmd \in {"REQUEST_SEARCH_WITH_CONDITIONS", "REQUEST_INSERT_NOTIFICATION",
                      "CANCEL_INSERT_NOTIFICATION"}}
    \cup {Request(cmd, [query_id |-> "q1"]) :
             cmd \in GetCommands \cup
                     {"REQUEST_SEARCH_WITH_CONDITIONS", "REQUEST_COUNT_TRANSACTIONS",
                      "REGISTER", "UNREGISTER", "REQUEST_SETUP_DOMAIN",
                      "REQUEST_CLOSE_DOMAIN", "REQUEST_GET_STORED_MESSAGES",
                      "NO_SUCH_COMMAND"}}
    \cup {Request("REQUEST_GET_STORED_MESSAGES", [request_async |-> TRUE]),
          Request("REQUEST_GATHER_SIGNATURE",
                  [transaction_data |-> DispatchTxData, destination_user_ids |-> <<"u2", "u1">>])}

\* the keys a message may come without
OptionalLooking ==
    {"command", "source_user_id", "domain_id", "query_id", "transaction_id",
     "transaction_data", "direction", "destination_user_id", "asset_group_id"}

\* every complete message, and every one of them short of one key
DispatchMessages ==
    FullMessages \cup
    {Without(m, k) : m \in FullMessages, k \in OptionalLooking}

InitDispatch == InitLedger

NextDispatch ==
    \/ \E s \in DispatchSockets : Accept(s)
    \/ \E s \in DispatchSockets, dat \in DispatchMessages : Receive(s, dat)
    \/ \E s \in DispatchSockets : PeerClose(s)
    \/ \E d \in DomainIds, txdata \in Corruptions(DispatchTxData.n) :
          CorruptStorage(d, TxIdOf(DispatchTxData.n), txdata)

SpecDispatch == InitDispatch /\ [][NextDispatch]_vars

\* ------------------------------------------------------ frames: the inputs
\* the messages each client sends, and the most a read delivers
NumFrames == 3
MaxRead == 5

\* each client has put its frames on the wire
InitFrames ==
    /\ domains = [c \in Cores |-> {}]
    /\ storage = [d \in DomainIds |-> EmptyStorage]
    /\ registered_users = [c \in Cores |-> [d \in DomainIds |-> NoUsers]]
    /\ insert_notification_list = [c \in Cores |-> [d \in DomainIds |-> {}]]
    /\ handler = [s \in Sockets |-> "idle"]
    /\ user_info = [s \in Sockets |-> NoneInfo]
    /\ last = [op |-> "init"]
    /\ tin = [kind |-> "none"]
    /\ tout = [kind |-> "none"]
    /\ stream = [NoStream EXCEPT
                    !.conn = [s \in Sockets |-> [@[s] EXCEPT !.wire = Wire(1, NumFrames)]]]
    /\ client_total_num = 0

\* _handler: socket.recv returns the next n units of the wire, which go to the
\* parser
Read(s, n) ==
    LET c == stream.conn[s] IN
    /\ handler[s] = "running"
    /\ c.pos = "recv"
    /\ n <= Len(c.wire)
    /\ stream' = [stream EXCEPT !.conn[s] =
                     [wire |-> SubSeq(c.wire, n + 1, Len(c.wire)),
                      buffer |-> msg_parser_recv(c.buffer, SubSeq(c.wire, 1, n)),
                      pos |-> "parse", read |-> n]]
    /\ UNCHANGED <<domains, storage, registered_users, insert_notification_list,
                   handler, user_info, last, tin, tout, client_total_num>>

\* the replies a step wrote to socket s, by query id
RepliesOn(s, sends) ==
    LET mine == SelectSeq(sends, LAMBDA e : e.via = "direct" /\ e.socket = s)
    IN  [i \in 1..Len(mine) |-> mine[i].msg.query_id]

\* _handler: the message p parsed from the buffer of socket s is processed,
\* with outcome r, before the parser is asked again
ProcessParsed(s, p, r) ==
    /\ Handled(s, p.msg, r)
    /\ stream' = [stream EXCEPT
                     !.conn[s].buffer = p.buffer,
                     !.conn[s].pos = IF r.kind = "tuple" /\ r.disconnection
                                     THEN "recv" ELSE "parse",
                     !.log = Append(@, [socket |-> s, query_id |-> p.msg.query_id,
                                        replies |-> RepliesOn(s, r.sends)])]

\* _handler: msg_parser.parse() returns a message
ParseMessage(s, p) ==
    /\ stream.conn[s].pos = "parse"
    /\ p.kind = "msg"
    /\ ProcessParsed(s, p, _process(CoreState(HandlerCore), s, p.msg))

\* _handler: msg_parser.parse() returns None and the handler goes back to
\* wait for the next read
ParseNone(s, p) ==
    /\ handler[s] = "running"
    /\ stream.conn[s].pos = "parse"
    /\ p.kind = "None"
    /\ stream' = [stream EXCEPT !.conn[s].pos = "recv"]
    /\ UNCHANGED <<domains, storage, registered_users, insert_notification_list,
                   handler, user_info, last, tin, tout, client_total_num>>

\* the peer closes once all its frames are sent
CloseAfterFrames(s) ==
    /\ stream.conn[s].pos = "recv"
    /\ stream.conn[s].wire = << >>
    /\ PeerClose(s)

NextFrames ==
    \/ \E s \in Sockets : Accept(s)
    \/ \E s \in Sockets, n \in 1..MaxRead : Read(s, n)
    \/ \E s \in Sockets :
          ParseMessage(s, msg_parser_parse(stream.conn[s].buffer, SocketUser[s]))
    \/ \E s \in Sockets :
          ParseNone(s, msg_parser_parse(stream.conn[s].buffer, SocketUser[s]))
    \/ \E s \in Sockets : CloseAfterFrames(s)

SpecFrames == InitFrames /\ [][NextFrames]_vars

\* ----------------------------------------------------------------- claims
\* the data deserializes and, with its digest recomputed, validates
ValidTxData(txdata) ==
    /\ deserialize(txdata).ok
    /\ validate_transaction_object(digest(deserialize(txdata).txobj))[1]

\* the id the digest gives the data
DigestId(txdata) == digest(deserialize(txdata).txobj).transaction_id

\* the rows of domain d that a step added or rewrote
RowsWritten(d) ==
    {k \in StoredIds(storage'[d]) :
        \/ k \notin StoredIds(storage[d])
        \/ storage'[d].transaction_table[k] # storage[d].transaction_table[k]}

\* C1: every row a step of the core writes into a domain's storage is written
\* by insert_transaction, for data that deserialized and validated under its
\* recomputed digest, under that digest's id; and no call of the storage
\* insert is made for data that fails to deserialize or to validate.
C1_AdmissionInvariant ==
    [][last'.op # "corrupt" =>
        /\ \A d \in DomainIds : \A k \in RowsWritten(d) :
              /\ last'.op = "insert_transaction"
              /\ last'.domain_id = d
              /\ ValidTxData(last'.txdata)
              /\ DigestId(last'.txdata) = k
              /\ storage'[d].transaction_table[k] = last'.txdata
        /\ last'.op = "insert_transaction" =>
              \A call \in last'.calls : ValidTxData(call[2])]_vars

\* C1 witness: data that does not validate was refused while the storage
\* holds an admitted transaction
C1_Witness ==
    /\ last.op = "insert_transaction"
    /\ last.domain_id \in domains[last.core]
    /\ ~ValidTxData(last.txdata)
    /\ last.ret.kind = "str"
    /\ StoredIds(storage["d1"]) # {}

\* C2: on an existing domain insert_transaction returns a record exactly when
\* deserialization, validation and the storage insert all succeed, and the
\* record's transaction_id is the digest id of the data; otherwise it returns
\* a reason string and the storage is unchanged.
C2_InsertResult ==
    (last.op = "insert_transaction" /\ last.domain_id \in domains[last.core]) =>
        LET ok == ValidTxData(last.txdata) /\ last.dbok IN
        /\ (last.ret.kind = "dict") <=> ok
        /\ ok => last.ret.val.transaction_id = DigestId(last.txdata)
        /\ ~ok => last.ret.kind = "str" /\ ~last.stored

\* C2 witness: valid data whose storage insert failed
C2_Witness ==
    /\ last.op = "insert_transaction"
    /\ last.domain_id \in domains[last.core]
    /\ ValidTxData(last.txdata)
    /\ ~last.dbok
    /\ last.ret.kind = "str"

\* C3: right after a successful insert_transaction of data T into domain D,
\* _search_transaction_by_txid(D, T.id) on every core hosting D returns a
\* result whose transaction_data is T.
C3_InsertThenSearch ==
    (last.op = "insert_transaction" /\ last.ret.kind = "dict") =>
        \A c \in Cores : last.domain_id \in domains[c] =>
            LET r == _search_transaction_by_txid(domains[c], storage, last.domain_id,
                                                 last.ret.val.transaction_id)
            IN  /\ r.kind = "dict"
                /\ "transaction_data" \in DOMAIN r.val
                /\ r.val.transaction_data = last.txdata

\* C3 witness: core c1 inserted successfully and core c2 hosts the domain too
C3_Witness ==
    /\ last.op = "insert_transaction"
    /\ last.ret.kind = "dict"
    /\ last.core = "c1"
    /\ last.domain_id \in domains["c2"]

\* the list a result holds under key, empty when the key is absent
ListOf(d, key) == IF key \in DOMAIN d THEN d[key] ELSE << >>

\* C4: in the result of a search by id or by conditions, a stored object whose
\* recomputed id differs from the id it is stored under is not in
\* transaction_data / transactions; it is in compromised_transaction_data /
\* compromised_transactions.
C4_MismatchNeverValid ==
    /\ (last.op = "_search_transaction_by_txid" /\ last.ret.kind = "dict") =>
          LET txdata == storage[last.domain_id].transaction_table[last.transaction_id] IN
          DigestId(txdata) # last.transaction_id =>
              /\ "transaction_data" \notin DOMAIN last.ret.val
              /\ "transactions" \notin DOMAIN last.ret.val
              /\ "compromised_transaction_data" \in DOMAIN last.ret.val
              /\ last.ret.val.compromised_transaction_data = txdata
    /\ (last.op = "search_transaction_with_condition" /\ last.ret.kind = "dict") =>
          LET items == dh_search_transaction_cond(storage[last.domain_id],
                           last.asset_group_id, last.asset_id, last.user_id,
                           last.direction, last.count)
              good  == {i \in 1..Len(items) : items[i][1] = items[i][2].transaction_id}
              valid == ListOf(last.ret.val, "transactions")
              comp  == ListOf(last.ret.val, "compromised_transactions")
          IN  /\ Len(valid) <= Cardinality(good)
              /\ \A i \in 1..Len(valid) :
                    \E j \in good : items[j][2].transaction_data = valid[i]
              /\ \A j \in (1..Len(items)) \ good :
                    items[j][2].transaction_data \in Range(comp)

\* C4 witness: a search by id whose only match is stored under an id that is
\* not its recomputed id
C4_Witness ==
    /\ last.op = "_search_transaction_by_txid"
    /\ last.ret.kind = "dict"
    /\ "compromised_transaction_data" \in DOMAIN last.ret.val
    /\ DigestId(last.ret.val.compromised_transaction_data) # last.transaction_id


\* ------------------------------------------------------- traversal claims
NoDuplicates(seq) == \A i, j \in 1..Len(seq) : seq[i] = seq[j] => i = j

\* every id a storage knows: stored, or an end of a topology row
GraphIds(dh) ==
    StoredIds(dh) \cup {e[1] : e \in dh.topology_table}
                  \cup {e[2] : e \in dh.topology_table}

\* the serialized transactions in a tree
TreeMembers(txtree) ==
    UNION {Range(txtree[i]) : i \in 1..Len(txtree)}

\* C5: _traverse_transactions resolves at most 30 distinct ids and expands at
\* most 60 layers; when the requested hop_count exceeds 60 or the entry cap
\* stops the walk the flag returned is False, and the tree returned is the
\* tree of the layers expanded before the stop.
C5_TraversalCaps ==
    tout.kind = "tuple" =>
        /\ tout.tx_count <= 30
        /\ Len(tout.resolved) <= 30
        /\ Cardinality(tout.txids) <= 30
        /\ tout.layers <= 60
        /\ (tin.hop_count > 60 \/ tout.stopped) =>
              /\ tout.include_all_flag = FALSE
              /\ tout.txtree =
                    _traverse_transactions(domains[tin.core], storage, tin.domain_id,
                        tin.transaction_id, tin.asset_group_id, tin.user_id,
                        tin.direction, tout.layers).txtree

\* C5 witness: the entry cap stopped a walk that had gathered layers
C5_Witness ==
    /\ tout.kind = "tuple"
    /\ tout.stopped
    /\ tout.tx_count = 30
    /\ Len(tout.txtree) > 0

\* C6 (as claimed): on any graph, cycles and re-converging paths included,
\* _traverse_transactions resolves no id twice and returns allIncluded = True
\* when the graph has fewer than 30 ids and hop_count is at most 60.
C6_CycleAllIncluded ==
    tout.kind = "tuple" =>
        /\ NoDuplicates(tout.resolved)
        /\ (Cardinality(GraphIds(storage[tin.domain_id])) < 30 /\ tin.hop_count <= 60)
              => tout.include_all_flag = TRUE

\* the ids within h topology steps of the ids in from
RECURSIVE Within(_, _, _, _)
Within(dh, from, traverse_to_past, h) ==
    IF h = 0 THEN from
    ELSE Within(dh,
             from \cup UNION {Range(NextTxids(dh, k, traverse_to_past)) : k \in from},
             traverse_to_past, h - 1)

\* the stored transaction under id k matches the filter
MatchesFilter(dh, k, asset_group_id, user_id) ==
    \E a \in Range(dh.transaction_table[k].assets) :
        /\ asset_group_id # None => a[1] = asset_group_id
        /\ user_id # None => a[3] = user_id

\* C7 (as claimed): with a filter set, a stored transaction that matches the
\* filter and lies within hop_count layers of the start, through matching or
\* non-matching transactions, is in the tree; one that does not match is not.
C7_FilterKeepsEdges ==
    (tout.kind = "tuple" /\ ~tout.stopped /\ tin.hop_count >= 1
        /\ (tin.asset_group_id # None \/ tin.user_id # None)) =>
        LET dh == storage[tin.domain_id] IN
        \A k \in StoredIds(dh) \cap
                 Within(dh, {tin.transaction_id}, tin.direction = 1, tin.hop_count - 1) :
            (dh.transaction_table[k] \in TreeMembers(tout.txtree))
                <=> MatchesFilter(dh, k, tin.asset_group_id, tin.user_id)

\* C8 (as claimed): for a stored transaction without ancestors, the traversal
\* to the past with hop_count 3 returns an empty tree and allIncluded = True.
C8_NoAncestorsEmptyTree ==
    LET dh == storage["d1"] IN
    (tout.kind = "tuple" /\ tin.direction = 1 /\ tin.hop_count = 3
        /\ tin.asset_group_id = None /\ tin.user_id = None
        /\ tin.transaction_id \in StoredIds(dh)
        /\ dh_search_transaction_topology(dh, tin.transaction_id, TRUE) = {}) =>
        /\ tout.txtree = << >>
        /\ tout.include_all_flag = TRUE

\* ------------------------------------------------------- dispatcher claims
\* the REQUEST_SIGNATURE messages a step handed to a routing table
SignRequests == SelectSeq(last.sends, LAMBDA e : e.msg.command = "REQUEST_SIGNATURE")

\* the entries of L that differ from R, in order
Others(L, R) == SelectSeq(L, LAMBDA u : u # R)

\* the request carries what the fan-out reads and names a domain of the core
WellFormedGather ==
    /\ last.op = "receive"
    /\ last.dat.command = "REQUEST_GATHER_SIGNATURE"
    /\ {"domain_id", "transaction_data", "query_id", "destination_user_ids"}
           \subseteq DOMAIN last.dat
    /\ last.hosted

\* C9: the fan-out of a REQUEST_GATHER_SIGNATURE from requester R never routes
\* a REQUEST_SIGNATURE to R, and for a request on a domain of the core it
\* routes one REQUEST_SIGNATURE per entry of the destination list that differs
\* from R, in the list's order, each with R as source_user_id and the
\* request's query_id and transaction_data.
C9_GatherFanOut ==
    (last.op = "receive" /\ last.dat.command = "REQUEST_GATHER_SIGNATURE") =>
        /\ \A i \in 1..Len(SignRequests) :
               SignRequests[i].msg.destination_user_id # last.dat.source_user_id
        /\ WellFormedGather =>
               LET want == Others(last.dat.destination_user_ids, last.dat.source_user_id)
               IN  /\ Len(last.sends) = Len(want)
                   /\ \A i \in 1..Len(want) :
                          /\ last.sends[i].via = "umr"
                          /\ last.sends[i].domain_id = last.dat.domain_id
                          /\ last.sends[i].msg.command = "REQUEST_SIGNATURE"
                          /\ last.sends[i].msg.destination_user_id = want[i]
                          /\ last.sends[i].msg.source_user_id = last.dat.source_user_id
                          /\ last.sends[i].msg.query_id = last.dat.query_id
                          /\ last.sends[i].msg.transaction_data = last.dat.transaction_data

\* a request whose list names the requester twice and another user once
C9_Witness ==
    /\ WellFormedGather
    /\ Len(last.dat.destination_user_ids) = 3
    /\ Len(Others(last.dat.destination_user_ids, last.dat.source_user_id)) = 1
    /\ Len(last.sends) = 1

\* C10: once the UNREGISTER of a connection for (D, U) has been handled, a
\* lookup of U in the routing table of D finds nothing.
C10_UnregisterRemoves ==
    (/\ last.op = "receive"
     /\ last.dat.command = "UNREGISTER"
     /\ "domain_id" \in DOMAIN last.dat
     /\ last.dat.domain_id \in domains[HandlerCore]) =>
        ~IsRegistered(registered_users[HandlerCore][last.dat.domain_id],
                      last.dat.source_user_id)

\* the connection had registered (D, U) and D is still a domain of the core
C10_Witness ==
    /\ last.op = "receive"
    /\ last.dat.command = "UNREGISTER"
    /\ "domain_id" \in DOMAIN last.dat
    /\ last.bound = <<last.dat.domain_id, last.dat.source_user_id>>
    /\ last.hosted
    /\ last.dat.domain_id \in domains[HandlerCore]

\* ------------------------------------------------------- connection claims
\* C11: once a connection's UNREGISTER message has been handled the handler
\* has left its loop for the teardown, and the next step does not process
\* another message of that connection.
C11_UnregisterEndsLoop ==
    [][/\ (last'.op = "receive" /\ last'.dat.command = "UNREGISTER") =>
              handler'[last'.socket] # "running"
       /\ (last.op = "receive" /\ last.dat.command = "UNREGISTER") =>
              ~(last'.op = "receive" /\ last'.socket = last.socket)]_vars

\* C12: a handler that has left its loop has shut down and closed its socket,
\* and the identity bound to the connection is in no routing table of the
\* core with that socket.
C12_GuaranteedCleanup ==
    \A s \in Sockets :
        /\ handler[s] # "raised"
        /\ (handler[s] = "closed" /\ user_info[s] # NoneInfo
                /\ user_info[s][1] \in domains[HandlerCore]) =>
               s \notin registered_users[HandlerCore][user_info[s][1]][user_info[s][2]]

\* ------------------------------------------------------- dispatcher claims
\* the keys each command's _param_check asks for, after command and
\* source_user_id (bbc_core.py lines 228-428)
CheckedKeys ==
    [REQUEST_SEARCH_TRANSACTION |-> {"domain_id", "transaction_id"},
     REQUEST_SEARCH_WITH_CONDITIONS |-> {"domain_id"},
     REQUEST_COUNT_TRANSACTIONS |-> {"domain_id"},
     REQUEST_TRAVERSE_TRANSACTIONS |-> {"domain_id", "transaction_id", "direction", "hop_count"},
     REQUEST_GATHER_SIGNATURE |-> {"domain_id", "transaction_data"},
     REQUEST_INSERT |-> {"domain_id", "transaction_data"},
     RESPONSE_SIGNATURE |-> {"domain_id", "destination_user_id"},
     MESSAGE |-> {"domain_id", "destination_user_id"},
     REGISTER |-> {"domain_id"},
     REQUEST_SETUP_DOMAIN |-> {"domain_id"}]

\* the message handled last is of a known command with a mandatory-field
\* check and lacks one of the keys that check asks for
LacksMandatory ==
    /\ last.op = "receive"
    /\ "command" \in DOMAIN last.dat
    /\ last.dat.command \in DOMAIN CheckedKeys
    /\ \E k \in CheckedKeys[last.dat.command] \cup {"source_user_id"} :
           k \notin DOMAIN last.dat

\* C13: a message of a known command that lacks one of the command's required
\* keys gets exactly one error reply, with status EINVALID_COMMAND and reason
\* "lack of mandatory params", through the routing table when the domain is
\* known and directly on the originating socket otherwise.
C13_MandatoryFieldReply ==
    LacksMandatory =>
        /\ last.kind = "tuple"
        /\ Len(last.sends) = 1
        /\ last.sends[1].msg.status = EINVALID_COMMAND
        /\ last.sends[1].msg.reason = "lack of mandatory params"
        /\ last.sends[1].via = IF last.hosted THEN "umr" ELSE "direct"

\* C14: whatever a received message holds, the connection loop goes on after
\* it; only UNREGISTER ends the loop.
C14_LoopSurvivesMessage ==
    (/\ last.op = "receive"
     /\ ~("command" \in DOMAIN last.dat /\ last.dat.command = "UNREGISTER")) =>
        /\ last.kind = "tuple"
        /\ handler[last.socket] = "running"

\* the message handled last has command and source_user_id, and its command
\* is not one the dispatcher knows
UnknownCommand(l) ==
    /\ l.op = "receive"
    /\ {"command", "source_user_id"} \subseteq DOMAIN l.dat
    /\ l.dat.command \notin KnownCommands

\* C15: a message with command and source_user_id whose command is not known
\* gets no reply, direct or routed, leaves the domain registry, the routing
\* tables, the storage and the connection's bound identity as they were, and
\* does not signal disconnection.
C15_UnknownCommandDropped ==
    [][UnknownCommand(last') =>
           /\ last'.kind = "tuple"
           /\ last'.sends = << >>
           /\ ~last'.disconnection
           /\ UNCHANGED <<domains, registered_users, insert_notification_list,
                          storage, user_info, handler>>]_vars

\* an unknown command arrives on a connection bound to a user of a domain
\* that is set up and holds a transaction
C15_Witness ==
    /\ UnknownCommand(last)
    /\ last.hosted
    /\ last.bound = <<"d1", "u1">>
    /\ IsRegistered(registered_users[HandlerCore]["d1"], "u1")
    /\ StoredIds(storage["d1"]) # {}

\* the response command of each snapshot request
ResponseOf ==
    [REQUEST_GET_STATS |-> "RESPONSE_GET_STATS",
     REQUEST_GET_CONFIG |-> "RESPONSE_GET_CONFIG",
     REQUEST_GET_DOMAINLIST |-> "RESPONSE_GET_DOMAINLIST",
     REQUEST_GET_USERS |-> "RESPONSE_GET_USERS",
     REQUEST_GET_NODEID |-> "RESPONSE_GET_NODEID",
     REQUEST_GET_NOTIFICATION_LIST |-> "RESPONSE_GET_NOTIFICATION_LIST"]

\* C16: every GET_STATS, GET_CONFIG, GET_DOMAINLIST, GET_USERS, GET_NODEID and
\* GET_NOTIFICATION_LIST request, whether or not its domain exists and its
\* sender is registered, is answered by exactly one matching RESPONSE_*
\* written to the originating socket, and by nothing through a routing table.
C16_SnapshotAnsweredDirectly ==
    (/\ last.op = "receive"
     /\ {"command", "source_user_id", "domain_id", "query_id"} \subseteq DOMAIN last.dat
     /\ last.dat.command \in GetCommands) =>
        /\ last.kind = "tuple"
        /\ Len(last.sends) = 1
        /\ last.sends[1].via = "direct"
        /\ last.sends[1].socket = last.socket
        /\ last.sends[1].msg.command = ResponseOf[last.dat.command]

\* a complete REQUEST_SETUP_DOMAIN message has been handled
SetupHandled(l) ==
    /\ l.op = "receive"
    /\ {"command", "source_user_id", "domain_id", "query_id"} \subseteq DOMAIN l.dat
    /\ l.dat.command = "REQUEST_SETUP_DOMAIN"

\* C17: the registry holds one entry per domain id.  A SETUP_DOMAIN for an id
\* that is registered answers RESPONSE_SETUP_DOMAIN with result false and
\* reason "Already exists" and leaves the entry (storage, routing table,
\* registered users) as it was; a SETUP_DOMAIN for an id that is not
\* registered answers result true and adds exactly that entry.
C17_SetupDomainOnce ==
    [][SetupHandled(last') =>
           LET c == HandlerCore
               d == last'.dat.domain_id
               m == last'.sends[1].msg
           IN  /\ last'.kind = "tuple"
               /\ Len(last'.sends) = 1
               /\ last'.sends[1].via = "direct"
               /\ m.command = "RESPONSE_SETUP_DOMAIN"
               /\ m.domain_id = d
               /\ storage' = storage
               /\ IF d \in domains[c]
                  THEN /\ m.result = FALSE
                       /\ "reason" \in DOMAIN m /\ m.reason = "Already exists"
                       /\ UNCHANGED <<domains, registered_users, insert_notification_list>>
                  ELSE /\ m.result = TRUE
                       /\ domains' = [domains EXCEPT ![c] = @ \cup {d}]
                       /\ \A e \in domains[c] :
                              /\ registered_users'[c][e] = registered_users[c][e]
                              /\ insert_notification_list'[c][e] =
                                     insert_notification_list[c][e]]_vars

\* a SETUP_DOMAIN arrives for a domain that is registered, has a registered
\* user and holds a transaction
C17_Witness ==
    /\ SetupHandled(last)
    /\ last.hosted
    /\ last.sends[1].msg.result = FALSE
    /\ IsRegistered(registered_users[HandlerCore][last.dat.domain_id], "u1")
    /\ StoredIds(storage[last.dat.domain_id]) # {}

\* the commands a client sends as a request and expects a response to
RequestCommands ==
    {"REQUEST_SEARCH_TRANSACTION", "REQUEST_SEARCH_WITH_CONDITIONS",
     "REQUEST_COUNT_TRANSACTIONS", "REQUEST_TRAVERSE_TRANSACTIONS",
     "REQUEST_INSERT", "REQUEST_SETUP_DOMAIN", "REQUEST_CLOSE_DOMAIN"}
    \cup GetCommands

\* the messages the dispatcher sent for the message handled last, to a user
\* or on the socket
Emitted ==
    {last.sends[i].msg : i \in {j \in 1..Len(last.sends) :
                                   last.sends[j].via \in {"umr", "dummy", "direct"}}}

\* C18: every response the dispatcher emits for a request carries the
\* request's query_id and is addressed to the request's source_user_id; a
\* relayed RESPONSE_SIGNATURE is addressed to the message's
\* destination_user_id.
C18_ResponseAddressing ==
    (/\ last.op = "receive"
     /\ {"command", "source_user_id", "query_id"} \subseteq DOMAIN last.dat) =>
        /\ last.dat.command \in RequestCommands =>
               \A m \in Emitted :
                   /\ "query_id" \in DOMAIN m /\ m.query_id = last.dat.query_id
                   /\ "destination_user_id" \in DOMAIN m
                   /\ m.destination_user_id = last.dat.source_user_id
        /\ (/\ last.dat.command = "RESPONSE_SIGNATURE"
            /\ "destination_user_id" \in DOMAIN last.dat) =>
               \A m \in Emitted :
                   /\ "destination_user_id" \in DOMAIN m
                   /\ m.destination_user_id = last.dat.destination_user_id

\* ---------------------------------------------------- missing-domain claims
\* the call handled last names a domain that is missing from the registry of
\* the core it was made on
DomainMissing ==
    last.domain_id = None \/ last.domain_id \notin domains[last.core]

\* C19: insert_transaction for a domain that is missing from the registry
\* (null id, or an id no domain was set up for) returns "Set up the domain,
\* first!", calls no storage and broadcasts no notification.
C19_MissingDomainRejected ==
    (last.op = "insert_transaction" /\ DomainMissing) =>
        /\ last.ret.kind = "str"
        /\ last.ret.val = "Set up the domain, first!"
        /\ last.calls = {}
        /\ last.notif = << >>
        /\ ~last.stored

\* C20: _search_transaction_by_txid and search_transaction_with_condition
\* called with a domain id that is null or not in the registry, or with a null
\* transaction id, return the absence result; they do not raise.
C20_SearchAbsence ==
    /\ (/\ last.op = "_search_transaction_by_txid"
        /\ (DomainMissing \/ last.transaction_id = NoneId)) => last.ret.kind = "None"
    /\ (last.op = "search_transaction_with_condition" /\ DomainMissing) =>
           last.ret.kind = "None"

\* ------------------------------------------------------------ search claims
\* a complete request of command cmd on a domain of the core has been handled
HandledOnHosted(cmd) ==
    /\ last.op = "receive"
    /\ {"command", "source_user_id", "domain_id", "query_id"} \subseteq DOMAIN last.dat
    /\ last.dat.command = cmd
    /\ last.hosted

\* the rows the storage query of the SEARCH_WITH_CONDITIONS handled last matched
ConditionHits ==
    dh_search_transaction_cond(storage[last.dat.domain_id],
        Get(last.dat, "asset_group_id", None), Get(last.dat, "asset_id", NoneId),
        Get(last.dat, "user_id", None), Get(last.dat, "direction", 0),
        Get(last.dat, "count", 1))

\* C21: a SEARCH_WITH_CONDITIONS request is answered with status
\* ENOTRANSACTION exactly when the storage query matched nothing; when at
\* least one stored object matched, the response carries the matches as the
\* lists transactions and/or compromised_transactions, also when every match
\* is compromised.
C21_ConditionsListForm ==
    HandledOnHosted("REQUEST_SEARCH_WITH_CONDITIONS") =>
        /\ last.kind = "tuple"
        /\ Len(last.sends) = 1
        /\ LET m == last.sends[1].msg IN
           /\ m.command = "RESPONSE_SEARCH_WITH_CONDITIONS"
           /\ (m.status = ENOTRANSACTION) <=> (Len(ConditionHits) = 0)
           /\ Len(ConditionHits) > 0 =>
                  {"transactions", "compromised_transactions"} \cap DOMAIN m # {}

\* C22: after a transaction with an asset of group G, asset id X and user U
\* has been inserted into domain D on a core, the searches of D for
\* (asset_group_id=G, asset_id=X) and for (asset_group_id=G, user_id=U), on
\* that core or another core that has D, return a result that is not None.
C22_InsertedAssetFound ==
    (last.op = "insert_transaction" /\ last.ret.kind = "dict") =>
        \A c \in Cores : last.domain_id \in domains[c] =>
            \A a \in Range(last.txdata.assets) :
                /\ search_transaction_with_condition(domains[c], storage,
                       last.domain_id, a[1], a[2], None, 0, 1).kind = "dict"
                /\ search_transaction_with_condition(domains[c], storage,
                       last.domain_id, a[1], NoneId, a[3], 0, 1).kind = "dict"

\* a transaction with an asset went in on one core while another core has the
\* domain too, and the domain holds a further transaction
C22_Witness ==
    /\ last.op = "insert_transaction"
    /\ last.ret.kind = "dict"
    /\ Len(last.txdata.assets) > 0
    /\ \E c \in Cores \ {last.core} : last.domain_id \in domains[c]
    /\ Cardinality(StoredIds(storage[last.domain_id])) > 1

\* C23: for every (claimed id, object) pair the storage returns whose
\* recomputed id equals the claimed id, _create_search_result puts the object
\* under transactions if and only if the valid flag of its validation is true,
\* and under compromised_transactions otherwise.
C23_ClassifiedByValidFlag ==
    \A d \in DomainIds : \A txid \in StoredIds(storage[d]) :
        LET item  == RowItem(storage[d], txid)
            r     == _create_search_result(<<item>>)
            valid == validate_transaction_object(item[2])[1]
        IN  item[1] = item[2].transaction_id =>
                /\ ("transactions" \in DOMAIN r) <=> valid
                /\ ("compromised_transactions" \in DOMAIN r) <=> ~valid

\* ------------------------------------------------------- admission claims
\* C24: an insertion notification for transaction T in domain D is broadcast
\* only when T was validated and the storage insert of T in D succeeded; a
\* successful insert_transaction broadcasts exactly one notification, for D
\* and T, and an insert that fails at any step broadcasts none.
C24_NotifyAfterStore ==
    last.op = "insert_transaction" =>
        /\ Len(last.notif) = (IF last.ret.kind = "dict" THEN 1 ELSE 0)
        /\ Len(last.notif) = 1 =>
               LET n == last.notif[1] IN
               /\ ValidTxData(last.txdata)
               /\ last.dbok
               /\ last.calls = {<<last.domain_id, last.txdata>>}
               /\ DigestId(last.txdata) \in StoredIds(storage[last.domain_id])
               /\ storage[last.domain_id].transaction_table[DigestId(last.txdata)]
                      = last.txdata
               /\ n.domain_id = last.domain_id
               /\ n.msg.domain_id = last.domain_id
               /\ n.msg.transaction_id = DigestId(last.txdata)
               /\ n.msg.asset_group_ids = {a[1] : a \in Range(last.txdata.assets)}

\* an insert went through all three steps and its notification went out
C24_Witness ==
    /\ last.op = "insert_transaction"
    /\ last.ret.kind = "dict"
    /\ Len(last.notif) = 1
    /\ last.stored

\* --------------------------------------------------------- relay claims
\* a RESPONSE_SIGNATURE with domain_id, destination_user_id, source_user_id
\* and query_id has been handled; one with a signature carries its format and
\* reference index, one with a status below ESUCCESS carries its reason
SignatureHandled ==
    /\ last.op = "receive"
    /\ {"command", "source_user_id", "domain_id", "destination_user_id", "query_id"}
           \subseteq DOMAIN last.dat
    /\ last.dat.command = "RESPONSE_SIGNATURE"
    /\ "signature" \in DOMAIN last.dat =>
           {"transaction_data_format", "ref_index"} \subseteq DOMAIN last.dat
    /\ ("status" \in DOMAIN last.dat /\ last.dat.status < ESUCCESS) =>
           "reason" \in DOMAIN last.dat

\* C25: every such RESPONSE_SIGNATURE is relayed as exactly one
\* RESPONSE_GATHER_SIGNATURE routed to its destination_user_id: with signature,
\* format and ref_index copied when it carries a signature; with status EOTHER
\* when it carries neither signature nor status, with or without a reason;
\* with its own status and reason when its status is below ESUCCESS.
C25_SignatureRelay ==
    SignatureHandled =>
        /\ last.kind = "tuple"
        /\ Len(last.sends) = 1
        /\ last.sends[1].via \in {"umr", "dummy"}
        /\ LET dat == last.dat
               m   == last.sends[1].msg
           IN  /\ m.command = "RESPONSE_GATHER_SIGNATURE"
               /\ m.destination_user_id = dat.destination_user_id
               /\ "signature" \in DOMAIN dat =>
                      /\ m.signature = dat.signature
                      /\ m.transaction_data_format = dat.transaction_data_format
                      /\ m.ref_index = dat.ref_index
               /\ {"signature", "status"} \cap DOMAIN dat = {} => m.status = EOTHER
               /\ ("signature" \notin DOMAIN dat /\ "status" \in DOMAIN dat
                       /\ dat.status < ESUCCESS) =>
                      /\ m.status = dat.status
                      /\ m.reason = dat.reason

\* ------------------------------------------------------- ordering claims
\* the messages of socket s handled so far, in the order of their handling
HandledOf(s) == SelectSeq(stream.log, LAMBDA e : e.socket = s)

\* the frames that lie completely in the first n units of a client's wire
CompleteIn(n) ==
    Cardinality({k \in 1..NumFrames : Len(Wire(1, k)) <= n})

\* C26: the messages of one connection are handled one at a time in the order
\* their frames arrived, also when a read delivers several complete frames or
\* a frame is split over reads; the reply to message n is emitted during its
\* handling, before message n+1 is handled; when the handler goes back to
\* wait for a read every complete frame it received has been handled.
C26_PerConnectionOrder ==
    \A s \in Sockets :
        LET mine      == HandledOf(s)
            delivered == Len(Wire(1, NumFrames)) - Len(stream.conn[s].wire)
        IN  /\ Len(mine) <= CompleteIn(delivered)
            /\ \A i \in 1..Len(mine) :
                   /\ mine[i].query_id = QueryId(i)
                   /\ mine[i].replies = <<QueryId(i)>>
            /\ stream.conn[s].pos = "recv" => Len(mine) = CompleteIn(delivered)
            /\ Len(stream.conn[s].buffer) =
                   delivered - Len(Wire(1, Len(mine)))

\* one read delivered two complete frames to one connection, a frame of the
\* other was split over reads, and the two connections' messages were handled
\* interleaved
C26_Witness ==
    /\ \E i, j, k \in 1..Len(stream.log) :
           /\ i < j /\ j < k
           /\ stream.log[i].socket = "s1"
           /\ stream.log[j].socket = "s2"
           /\ stream.log[k].socket = "s1"
    /\ stream.conn["s1"].read = MaxRead
    /\ Len(HandledOf("s1")) = 2
    /\ stream.conn["s1"].wire # << >>
    /\ stream.conn["s2"].read = 1
    /\ Len(stream.conn["s2"].buffer) = 1

\* ------------------------------------------------ traversal result claims
\* C27: without a filter, _traverse_transactions returns allIncluded = False
\* only if the requested hop_count exceeds 60 or, at some layer of the walk,
\* the ids already visited plus the set of not-yet-visited ids of the next
\* layer exceed 30; an id that occurs several times among a layer's
\* candidates, or that was visited, counts once.
C27_TruncationExact ==
    (tout.kind = "tuple" /\ tin.asset_group_id = None /\ tin.user_id = None
        /\ ~tout.include_all_flag) =>
        \/ tin.hop_count > 2 * TX_TRAVERSAL_MAX
        \/ \E h \in 0..(tin.hop_count - 1) :
               Cardinality(Within(storage[tin.domain_id], {tin.transaction_id},
                                  tin.direction = 1, h)) > TX_TRAVERSAL_MAX

C29_SearchByIdOutcome ==
    (HandledOnHosted("REQUEST_SEARCH_TRANSACTION")
        /\ "transaction_id" \in DOMAIN last.dat) =>
        /\ last.kind = "tuple"
        /\ Len(last.sends) = 1
        /\ LET m    == last.sends[1].msg
               dh   == storage[last.dat.domain_id]
               txid == last.dat.transaction_id
               has(k) == k \in DOMAIN m
           IN  /\ m.command = "RESPONSE_SEARCH_TRANSACTION"
               /\ ~has("transactions") /\ ~has("compromised_transactions")
               /\ IF txid \notin StoredIds(dh)
                  THEN /\ m.status = ENOTRANSACTION
                       /\ ~has("transaction_data")
                       /\ ~has("compromised_transaction_data")
                  ELSE IF /\ ValidTxData(dh.transaction_table[txid])
                          /\ DigestId(dh.transaction_table[txid]) = txid
                  THEN /\ m.status = ESUCCESS
                       /\ has("transaction_data")
                       /\ m.transaction_data = dh.transaction_table[txid]
                       /\ ~has("compromised_transaction_data")
                  ELSE /\ m.status = EBADTRANSACTION
                       /\ has("compromised_transaction_data")
                       /\ m.compromised_transaction_data = dh.transaction_table[txid]
                       /\ ~has("transaction_data")

\* the transactions of a tree, layer after layer, as one sequence
RECURSIVE Flatten(_)
Flatten(txtree) ==
    IF Len(txtree) = 0 THEN << >>
    ELSE Head(txtree) \o Flatten(Tail(txtree))

\* C30: the tree returned by _traverse_transactions has at most
\* min(hop_count, 60) layers, no layer is an empty list, every transaction
\* occurs at most once in the whole tree, and once an iteration of the hop loop
\* contributes no member every later one contributes none either (the walk
\* cannot resume past an empty layer).
C30_TreeShape ==
    tout.kind = "tuple" =>
        /\ Len(tout.txtree) <= tin.hop_count
        /\ Len(tout.txtree) <= 2 * TX_TRAVERSAL_MAX
        /\ \A i \in 1..Len(tout.txtree) : Len(tout.txtree[i]) > 0
        /\ NoDuplicates(Flatten(tout.txtree))
        /\ \A i, j \in 1..Len(tout.sizes) :
               (i < j /\ tout.sizes[i] = 0) => tout.sizes[j] = 0
        /\ \A i \in 1..Len(tout.txtree) : Len(tout.txtree[i]) = tout.sizes[i]

\* C30 witness: a filtered walk whose first iteration contributes nothing
\* although the start transaction is stored and points on to a stored
\* transaction the filter accepts, and the hop loop runs on after it
C30_Witness ==
    /\ tout.kind = "tuple"
    /\ Len(tout.sizes) >= 2
    /\ tout.sizes[1] = 0
    /\ tout.txtree = << >>
    /\ LET dh == storage[tin.domain_id] IN
       /\ tin.transaction_id \in StoredIds(dh)
       /\ \E k \in StoredIds(dh) :
              /\ k \in Range(NextTxids(dh, tin.transaction_id, tin.direction = 1))
              /\ MatchesFilter(dh, k, tin.asset_group_id, tin.user_id)

\* ------------------------------------------------ connection end claims
\* C31: in every reachable state the counter client/total_num equals the
\* number of _handler invocations that have started and not yet finished;
\* once every connection has ended, by any exit path and under any
\* interleaving with REGISTER and domain removal, the counter is 0.
C31_CounterBalance ==
    /\ client_total_num = Cardinality({s \in Sockets : handler[s] = "running"})
    /\ (\A s \in Sockets : handler[s] \notin {"idle", "running"}) => client_total_num = 0

\* C32: every RESPONSE_GATHER_SIGNATURE the relay routes with status ESUCCESS
\* carries a signature; a RESPONSE_SIGNATURE without a signature is never
\* relayed to the requester as a success.
C32_RelayedSuccessSigned ==
    (last.op = "receive" /\ last.kind = "tuple") =>
        \A i \in 1..Len(last.sends) :
            LET m == last.sends[i].msg IN
            ({"command", "status"} \subseteq DOMAIN m
                 /\ m.command = "RESPONSE_GATHER_SIGNATURE"
                 /\ m.status = ESUCCESS)
                => "signature" \in DOMAIN m

\* C33: after a connection's handler has finished, no routing table of any
\* domain still maps a user to the connection's socket, whatever REGISTER and
\* UNREGISTER messages the connection sent.
C33_NoRegistrationOutlives ==
    \A s \in Sockets : handler[s] \in {"closed", "raised"} =>
        \A c \in Cores, d \in DomainIds, u \in Users :
            s \notin registered_users[c][d][u]

=============================================================================
